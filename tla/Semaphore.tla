----------------------------- MODULE Semaphore ------------------------------
(***************************************************************************)
(* What a counting semaphore promises its users: a pool of tokens and a    *)
(* first-come first-served line.  No scheduler, no counter that goes       *)
(* negative, no interrupt context: module ChSem implements this.           *)
(***************************************************************************)
EXTENDS Integers, Sequences

CONSTANTS
  Threads,   \* threads that wait and signal
  Sems,      \* semaphores
  MaxAdd,    \* largest number of tokens given in one operation
  MaxReset   \* largest number of tokens a reset leaves

VARIABLES
  tokens,    \* free tokens of each semaphore
  line,      \* threads waiting on each semaphore, first come first
  outcome    \* outcome of the last wait of each thread

absVars == <<tokens, line, outcome>>

Minimum(a, b) == IF a < b THEN a ELSE b

AbsInit ==
  /\ tokens \in [Sems -> 0..MaxReset]
  /\ line = [s \in Sems |-> <<>>]
  /\ outcome = [t \in Threads |-> "MSG_OK"]

\* n tokens given to s, in the context where out and tok already hold.
Give(s, n) ==
  LET k == Minimum(n, Len(line[s])) IN
  /\ line' = [line EXCEPT ![s] = SubSeq(@, k + 1, Len(@))]
  /\ tokens' = [tokens EXCEPT ![s] = @ + n - k]
  /\ outcome' = [t \in Threads |->
                   IF \E i \in 1..k : line[s][i] = t THEN "MSG_OK" ELSE outcome[t]]

Take(t, s) ==
  /\ tokens[s] > 0
  /\ tokens' = [tokens EXCEPT ![s] = @ - 1]
  /\ outcome' = [outcome EXCEPT ![t] = "MSG_OK"]
  /\ UNCHANGED line

Refuse(t, s) ==
  /\ tokens[s] = 0
  /\ outcome' = [outcome EXCEPT ![t] = "MSG_TIMEOUT"]
  /\ UNCHANGED <<tokens, line>>

Queue(t, s) ==
  /\ tokens[s] = 0
  /\ line' = [line EXCEPT ![s] = Append(@, t)]
  /\ outcome' = [outcome EXCEPT ![t] = "WAITING"]
  /\ UNCHANGED tokens

\* A bounded wait expires: exactly this thread leaves the line.
GiveUp(t, s) ==
  /\ outcome[t] = "WAITING"
  /\ \E i \in DOMAIN line[s] :
       /\ line[s][i] = t
       /\ line' = [line EXCEPT ![s] = SubSeq(@, 1, i - 1) \o SubSeq(@, i + 1, Len(@))]
  /\ outcome' = [outcome EXCEPT ![t] = "MSG_TIMEOUT"]
  /\ UNCHANGED tokens

Restart(s, n) ==
  /\ tokens' = [tokens EXCEPT ![s] = n]
  /\ line' = [line EXCEPT ![s] = <<>>]
  /\ outcome' = [t \in Threads |->
                   IF \E i \in DOMAIN line[s] : line[s][i] = t
                     THEN "MSG_RESET" ELSE outcome[t]]

\* Give one token to s and wait for one of w, as a single operation.
Exchange(t, s, w) ==
  LET served == {u \in Threads : line[s] # <<>> /\ u = Head(line[s])}
      left   == [line EXCEPT ![s] = IF @ = <<>> THEN @ ELSE Tail(@)]
      pool   == [tokens EXCEPT ![s] = IF line[s] = <<>> THEN @ + 1 ELSE @]
      told   == [u \in Threads |-> IF u \in served THEN "MSG_OK" ELSE outcome[u]]
  IN IF pool[w] > 0
       THEN /\ tokens' = [pool EXCEPT ![w] = @ - 1]
            /\ line' = left
            /\ outcome' = [told EXCEPT ![t] = "MSG_OK"]
       ELSE /\ tokens' = pool
            /\ line' = [left EXCEPT ![w] = Append(@, t)]
            /\ outcome' = [told EXCEPT ![t] = "WAITING"]

AbsNext ==
  \E s \in Sems :
    \/ \E n \in 1..MaxAdd : Give(s, n)
    \/ \E n \in 0..MaxReset : Restart(s, n)
    \/ \E t \in Threads :
         \/ GiveUp(t, s)
         \/ /\ outcome[t] # "WAITING"
            /\ \/ Take(t, s)
               \/ Refuse(t, s)
               \/ Queue(t, s)
               \/ \E w \in Sems : Exchange(t, s, w)

AbsSpec == AbsInit /\ [][AbsNext]_absVars

=============================================================================
