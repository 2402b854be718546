------------------------------ MODULE Channel -------------------------------
(***************************************************************************)
(* What a mailbox promises: a channel of bounded capacity.  A message put  *)
(* is taken once, in order, those put ahead first; none is lost, repeated  *)
(* or overwritten, except that the channel may be cleared as a whole.      *)
(***************************************************************************)
EXTENDS Naturals, Sequences

CONSTANTS
  Payloads,   \* the messages
  Capacity,   \* how many fit
  Nothing     \* before the first message is taken

VARIABLES
  content,    \* the messages in the channel, next one first
  got         \* the last message taken

Put(m) ==
  /\ Len(content) < Capacity
  /\ content' = Append(content, m)
  /\ UNCHANGED got

PutAhead(m) ==
  /\ Len(content) < Capacity
  /\ content' = <<m>> \o content
  /\ UNCHANGED got

Take ==
  /\ content # <<>>
  /\ got' = Head(content)
  /\ content' = Tail(content)

Clear == content' = <<>> /\ UNCHANGED got

AbsInit == content = <<>> /\ got = Nothing

AbsNext ==
  \/ \E m \in Payloads : Put(m) \/ PutAhead(m)
  \/ Take
  \/ Clear

absVars == <<content, got>>

AbsSpec == AbsInit /\ [][AbsNext]_absVars

=============================================================================
