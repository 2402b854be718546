------------------------------- MODULE MCHttp -------------------------------
(* HttpServer for TLC: "V" is the version, "H" a header that is kept, "X"  *)
(* one that is skipped, "i" the file.                                      *)
EXTENDS HttpServer, TLC

CRLF  == <<"cr", "lf">>
Get   == {<<"G">>}
Kept  == {<<"H">>}
Image == [f \in {<<"i">>} |-> 5]
Get1  == <<"G", "sp", "/">>
Pairs == (<<"6", "9">> :> "i") @@ (<<"0", "0">> :> "nul")
Requests == {
  Get1 \o <<"i", "sp", "V">> \o CRLF \o <<"X", ":", "a", "b", "c", "d">> \o CRLF
       \o <<"H", ":", "sp", "a">> \o CRLF \o CRLF,
  <<"G", "sp", "sp", "/", "%", "0", "0", "lf">>, <<"G", "lf", "/", "sp", "lf">>,
  Get1 \o <<".", "n", "sp", "V", "lf", "H", ":", "a", "lf", "sp", "H", ":", "b", "lf", "lf">>,
  Get1 \o <<"\\", "i", "sp", "V", "lf", "a", "lf", "H", ":", "b", "lf", "lf">>,
  Get1 \o <<"?", "i", "sp", "V">> \o CRLF \o CRLF \o <<"b">>,
  <<"P", "sp", "/", "sp", "V">> \o CRLF \o CRLF,
  Get1 \o <<"%", "6", "9", "sp", "V">> \o CRLF
       \o <<"H", ":", "a", "a", "a", "a">> \o CRLF \o CRLF }
=============================================================================
