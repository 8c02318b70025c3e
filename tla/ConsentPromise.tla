--------------------------- MODULE ConsentPromise ---------------------------
(***************************************************************************)
(* What a revocation promises the artist and the counterparty, with the    *)
(* processes, their snapshots and their failures left out.  A granted      *)
(* event, once ended, never authorises again; nothing ends without a newer *)
(* grant in its place or a termination on record; an operation terminates  *)
(* a grant at most once, owes exactly one notice for it, and delivers it   *)
(* at most once.                                                           *)
(***************************************************************************)
CONSTANTS Granting,    \* granted events, each with the `grant` it belongs to
          Effect       \* <<operation, grant>>

VARIABLES granted,     \* events ever granted
          ended,       \* those that no longer authorise anything
          owed,        \* terminations on record, each with its notice owed
          told         \* notices delivered

vars == <<granted, ended, owed, told>>

Init == /\ granted \subseteq Granting
        /\ ended \subseteq granted
        /\ owed = {} /\ told = {}

(* Only events of grant g end, and whatever had ended stays so.            *)
EndsOnly(g) == /\ ended \subseteq ended'
               /\ ended' \subseteq granted'
               /\ \A e \in ended' \ ended : e.grant = g

(* A new grant, or a re-grant that takes the place of older events.        *)
Issue ==
  /\ \E d \in granted' : /\ d \in Granting
                         /\ granted' = granted \cup {d}
                         /\ EndsOnly(d.grant)
  /\ UNCHANGED <<owed, told>>

(* Operation x[1] terminates grant x[2]: the first and only time.          *)
Terminate ==
  /\ \E x \in Effect \ owed : /\ owed' = owed \cup {x}
                              /\ EndsOnly(x[2])
  /\ UNCHANGED <<granted, told>>

Notify ==
  /\ \E x \in owed \ told : told' = told \cup {x}
  /\ UNCHANGED <<granted, ended, owed>>

Next == Issue \/ Terminate \/ Notify

Spec == Init /\ [][Next]_vars
=============================================================================
