------------------------------- MODULE JobLife -------------------------------
(* What the queue promises about a job that no plan takes down: it is open,    *)
(* held by one client, or has left.  It changes hands only by being given      *)
(* back, it leaves only when it is finished, and once it has left it never     *)
(* comes back.                                                                 *)
CONSTANTS Clients, Jobs

VARIABLES place,     \* where each job is, and the client that holds it
          finished   \* the jobs with a record

vars == <<place, finished>>

Open == [at |-> "avail", by |-> "none"]
Held(c) == [at |-> "leased", by |-> c]
Left == [at |-> "gone", by |-> "none"]

Init == place = [j \in Jobs |-> Open] /\ finished = {}

Move(j, where) == place' = [place EXCEPT ![j] = where] /\ UNCHANGED finished

Take(j, c) == place[j] = Open /\ Move(j, Held(c))

GiveBack(j) == (\E c \in Clients : place[j] = Held(c)) /\ Move(j, Open)

\* The first record is written while the job is still in the queue.
Finish(j) == place[j] # Left /\ finished' = finished \cup {j} /\ UNCHANGED place

Leave(j) == j \in finished /\ Move(j, Left)

Next == \E j \in Jobs : (\E c \in Clients : Take(j, c)) \/ GiveBack(j) \/ Finish(j) \/ Leave(j)

Spec == Init /\ [][Next]_vars
=============================================================================
