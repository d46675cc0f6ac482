------------------------------ MODULE RaftLog ------------------------------
(***************************************************************************)
(* What raft/raft.go promises the service above it: nodes that believe     *)
(* they lead append commands to their own logs, other nodes' logs follow   *)
(* theirs, and one sequence of committed entries only ever grows and is    *)
(* delivered in order to the service of every node.                        *)
(*                                                                         *)
(* Terms, votes, messages and majorities are left out.  Several nodes may  *)
(* lead at once; nothing says which of their entries will be committed.    *)
(* What a leader has sent may arrive when it leads no more.                *)
(***************************************************************************)
EXTENDS Integers, Sequences

CONSTANTS
    Node,        \* the indices of peersAddr
    Command      \* what a log may hold

VARIABLES
    leaders,     \* the nodes whose Start accepts commands
    logs,        \* each node's log, from index 1
    offered,     \* history: the logs each node has had as a leader
    committed,   \* the entries that some node knows to be committed
    delivered    \* the index of the last entry each service has been given

logVars == <<leaders, logs, offered, committed, delivered>>

\* The log s begins with the first k committed entries.
Agrees(s, k) == k <= Len(s) /\ SubSeq(s, 1, k) = SubSeq(committed, 1, k)

-----------------------------------------------------------------------------
\* becomeLeader.  The votes for i may be late: then i lacks entries that the leader of a
\* later term has committed, and will not commit any itself.
Elect(i) ==
    /\ i \notin leaders
    /\ leaders' = leaders \cup {i}
    /\ offered' = [offered EXCEPT ![i] = @ \cup {logs[i]}]
    /\ UNCHANGED <<logs, committed, delivered>>

\* becomeFollower.
StepDown(i) ==
    /\ i \in leaders
    /\ leaders' = leaders \ {i}
    /\ UNCHANGED <<logs, offered, committed, delivered>>

\* Start returns the index Len(logs'[i]).
Propose(i, command) ==
    /\ i \in leaders
    /\ logs' = [logs EXCEPT ![i] = Append(@, command)]
    /\ offered' = [offered EXCEPT ![i] = @ \cup {logs'[i]}]
    /\ UNCHANGED <<leaders, committed, delivered>>

\* AppendEntries makes the log of j what the log of the leader i was when it was
\* sent, and keeps what the service of j has been given; j no longer leads.
Replicate(i, j, s) ==
    /\ s \in offered[i]
    /\ j # i
    /\ Agrees(s, delivered[j])
    /\ logs' = [logs EXCEPT ![j] = s]
    /\ leaders' = leaders \ {j}
    /\ UNCHANGED <<offered, committed, delivered>>

\* updateCommitIndex.
Commit(i, n) ==
    /\ i \in leaders
    /\ Len(committed) < n
    /\ Agrees(logs[i], Len(committed))
    /\ committed' = SubSeq(logs[i], 1, n)
    /\ UNCHANGED <<leaders, logs, offered, delivered>>

\* The applier hands the service of j the next committed entry.
Deliver(j) ==
    /\ delivered[j] < Len(committed)
    /\ Agrees(logs[j], delivered[j] + 1)
    /\ delivered' = [delivered EXCEPT ![j] = @ + 1]
    /\ UNCHANGED <<leaders, logs, offered, committed>>

\* InstallSnapshot brings j to entry n; what j had after the snapshot may be dropped.
Install(j, n) ==
    /\ delivered[j] < n
    /\ n <= Len(committed)
    /\ delivered' = [delivered EXCEPT ![j] = n]
    /\ logs' = [logs EXCEPT ![j] = SubSeq(committed, 1, n)]
    /\ leaders' = leaders \ {j}
    /\ UNCHANGED <<offered, committed>>

\* The process of j starts again from what it saved, its snapshot at entry n included.
Restart(j, n) ==
    /\ n <= delivered[j]
    /\ delivered' = [delivered EXCEPT ![j] = n]
    /\ leaders' = leaders \ {j}
    /\ UNCHANGED <<logs, offered, committed>>

Init ==
    /\ leaders = {}
    /\ logs = [i \in Node |-> << >>]
    /\ offered = [i \in Node |-> {}]
    /\ committed = << >>
    /\ delivered = [i \in Node |-> 0]

Next ==
    \E i \in Node :
        \/ Elect(i)
        \/ StepDown(i)
        \/ \E command \in Command : Propose(i, command)
        \/ \E j \in Node : \E s \in offered[i] : Replicate(i, j, s)
        \/ \E n \in 1 .. Len(logs[i]) : Commit(i, n)
        \/ Deliver(i)
        \/ \E n \in 1 .. Len(committed) : Install(i, n)
        \/ \E n \in 0 .. delivered[i] : Restart(i, n)

Spec == Init /\ [][Next]_logVars
=============================================================================
