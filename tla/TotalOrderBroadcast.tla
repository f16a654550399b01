-------------------------- MODULE TotalOrderBroadcast --------------------------
(***************************************************************************)
(* What the relay promises its clients, without sockets, threads or locks: *)
(* the chunks that are broadcast form one log, and a member receives the   *)
(* part of the log that follows its joining, in the order of the log, with *)
(* nothing missing and nothing twice, its own chunks left out, until it    *)
(* leaves.  Members may lag behind the log, each by its own amount.        *)
(***************************************************************************)
EXTENDS Naturals, Sequences

CONSTANTS Member, Data

VARIABLES
  log,        \* the chunks in the order of their broadcasts
  status,     \* "out" before joining, then "in", then "left" for good
  pos,        \* how much of the log a member has gone through
  delivered   \* what a member has received

vars == <<log, status, pos, delivered>>

Init ==
  /\ log = <<>>
  /\ status = [m \in Member |-> "out"]
  /\ pos = [m \in Member |-> 0]
  /\ delivered = [m \in Member |-> <<>>]

\* A member starts at the end of the log: it does not receive the past.
Join(m) ==
  /\ status[m] = "out"
  /\ status' = [status EXCEPT ![m] = "in"]
  /\ pos' = [pos EXCEPT ![m] = Len(log)]
  /\ UNCHANGED <<log, delivered>>

\* A whole set leaves at once when the server dies.
Leave(S) ==
  /\ status' = [m \in Member |-> IF m \in S THEN "left" ELSE status[m]]
  /\ pos' = [m \in Member |-> IF m \in S THEN 0 ELSE pos[m]]
  /\ UNCHANGED <<log, delivered>>

Publish(m, d) ==
  /\ log' = Append(log, [from |-> m, data |-> d])
  /\ UNCHANGED <<status, pos, delivered>>

Deliver(m) ==
  /\ status[m] = "in" /\ pos[m] < Len(log)
  /\ LET entry == log[pos[m] + 1]
     IN  delivered' = IF entry.from = m THEN delivered
                      ELSE [delivered EXCEPT ![m] = @ \o entry.data]
  /\ pos' = [pos EXCEPT ![m] = @ + 1]
  /\ UNCHANGED <<log, status>>

Next ==
  \/ \E m \in Member : Join(m) \/ Deliver(m)
  \/ \E m \in Member, d \in Data : Publish(m, d)
  \/ \E S \in SUBSET Member : Leave(S)

Spec == Init /\ [][Next]_vars
=============================================================================
