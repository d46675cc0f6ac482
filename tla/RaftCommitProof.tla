-------------------------- MODULE RaftCommitProof --------------------------
(***************************************************************************)
(* Committed entries stay, in the environment of OrderlyNetwork.           *)
(***************************************************************************)
EXTENDS RaftLogProof, RaftCommit

-----------------------------------------------------------------------------
(* Chains that respect an entry. *)

Typed(c) ==
    /\ IsChain(c)
    /\ c.base <= c.last
    /\ \A n \in Span(c) : c.at[n].term \in Int

\* Chains begin with the entry Make puts into every log.
FromStart(c) == c.base = 0

LEMMA SpanOwned ==
    ASSUME NEW c, IsChain(c)
    PROVE  /\ \A n \in Owned(c) : n \in Span(c) /\ n \in Int
           /\ \A n \in Span(c) : n \in Int /\ c.base <= n /\ n <= c.last
           /\ \A n \in Span(c) : n = c.base \/ n \in Owned(c)
BY DEF IsChain, Span, Owned

LEMMA SuffixRespects ==
    ASSUME NEW c, NEW new, NEW n, NEW e, SuffixOf(new, c), Respects(c, n, e)
    PROVE  Respects(new, n, e)
<1> SUFFICES ASSUME NEW k \in Owned(new),
                    new.at[k].term > e.term \/ (new.at[k].term = e.term /\ k >= n)
             PROVE  k >= n /\ (n \in Owned(new) => new.at[n] = e)
    BY DEF Respects
<1>1. k \in Owned(c) /\ new.at[k] = c.at[k]
    BY DEF SuffixOf
<1>2. k >= n /\ (n \in Owned(c) => c.at[n] = e)
    BY <1>1 DEF Respects
<1> QED BY <1>2 DEF SuffixOf

\* A leader appends e's successors after e.
LEMMA ExtensionRespects ==
    ASSUME NEW c, NEW new, NEW x, NEW n \in Int, NEW e, IsChain(c), ExtensionOf(new, c, x),
           Respects(c, n, e), x.term \in Int, e.term \in Int, x.term >= e.term => Holds(c, n, e)
    PROVE  Respects(new, n, e)
<1> SUFFICES ASSUME NEW k \in Owned(new),
                    new.at[k].term > e.term \/ (new.at[k].term = e.term /\ k >= n)
             PROVE  k >= n /\ (n \in Owned(new) => new.at[n] = e)
    BY DEF Respects
<1>1. CASE k \in Owned(c)
    <2>1. new.at[k] = c.at[k]
        BY <1>1 DEF ExtensionOf
    <2>2. k >= n /\ (n \in Owned(c) => c.at[n] = e)
        BY <1>1, <2>1 DEF Respects
    <2>3. n \in Owned(new) => n \in Owned(c)
        BY <1>1, <2>2 DEF Owned, ExtensionOf, IsChain
    <2> QED BY <2>2, <2>3 DEF ExtensionOf
<1>2. CASE k \notin Owned(c)
    <2>1. k = new.last /\ k = c.last + 1 /\ c.last \in Int
        BY <1>2 DEF Owned, ExtensionOf, IsChain
    <2>2. Holds(c, n, e)
        BY <2>1 DEF ExtensionOf
    <2>3. k >= n
        BY <2>1, <2>2 DEF Holds, Owned, IsChain
    <2> QED BY <2>2, <2>3 DEF Holds, ExtensionOf
<1> QED BY <1>1, <1>2

\* A follower joins a call of e's term or a later one to its log.
LEMMA JoinRespects ==
    ASSUME NEW c, NEW m, NEW new, NEW n \in Nat \ {0}, NEW e, NEW t \in Int,
           Typed(c), Typed(m), JoinOf(new, c, m), FromStart(c),
           Respects(c, n, e), Respects(m, n, e), e.term \in Int, UpTo(m, t),
           t >= e.term /\ n <= m.base => m.at[m.base].term >= e.term
    PROVE  Respects(new, n, e)
<1> SUFFICES ASSUME NEW k \in Owned(new),
                    new.at[k].term > e.term \/ (new.at[k].term = e.term /\ k >= n)
             PROVE  k >= n /\ (n \in Owned(new) => new.at[n] = e)
    BY DEF Respects
<1>1. /\ new.base = 0 /\ c.base = 0 /\ new.last = m.last
      /\ m.base \in Int /\ m.last \in Int /\ c.last \in Int
      /\ 0 <= m.base /\ m.base <= c.last /\ m.base <= m.last
      /\ c.at[m.base].term = m.at[m.base].term /\ c.at[m.base].term \in Int
    BY DEF JoinOf, Typed, FromStart, Span, IsChain
<1>2. \A j \in Owned(new) : new.at[j] = IF j <= m.base THEN c.at[j] ELSE m.at[j]
    BY DEF JoinOf
<1>3. /\ \A j \in Owned(new) : j \in Int
      /\ \A j \in Owned(new) : j <= m.base => j \in Owned(c)
      /\ \A j \in Owned(new) : ~(j <= m.base) => j \in Owned(m)
    BY <1>1 DEF Owned
<1>4. CASE k <= m.base
    <2>1. k \in Owned(c) /\ new.at[k] = c.at[k]
        BY <1>2, <1>3, <1>4
    <2>2. k >= n /\ (n \in Owned(c) => c.at[n] = e)
        BY <2>1 DEF Respects
    <2>3. n <= m.base
        BY <1>1, <1>3, <1>4, <2>2
    <2> QED BY <1>2, <1>3, <2>2, <2>3
<1>5. CASE ~(k <= m.base)
    <2>1. k \in Owned(m) /\ new.at[k] = m.at[k]
        BY <1>2, <1>3, <1>5
    <2>2. k >= n /\ (n \in Owned(m) => m.at[n] = e)
        BY <2>1 DEF Respects
    <2>3. CASE ~(n <= m.base)
        BY <1>2, <1>3, <2>2, <2>3
    <2>4. CASE n <= m.base
        <3>1. k \in Span(m) /\ m.at[k].term <= t /\ m.at[k].term \in Int
            BY <2>1, SpanOwned DEF Typed, UpTo
        <3>2. t >= e.term
            BY <2>1, <3>1
        <3>3. c.at[m.base].term >= e.term
            BY <1>1, <2>4, <3>2
        <3>4. m.base \in Owned(c) /\ n \in Owned(c) /\ m.base >= n
            BY <1>1, <2>4 DEF Owned
        <3>5. c.at[m.base].term > e.term \/ (c.at[m.base].term = e.term /\ m.base >= n)
            BY <1>1, <3>3, <3>4
        <3>6. c.at[n] = e
            BY <3>4, <3>5 DEF Respects
        <3> QED BY <1>2, <2>2, <2>4, <3>6
    <2> QED BY <2>3, <2>4
<1> QED BY <1>4, <1>5

LEMMA SuffixCarries ==
    ASSUME NEW c, NEW new, NEW n, NEW e, IsChain(c), SuffixOf(new, c), Holds(c, n, e)
    PROVE  Carries(new, n, e)
<1>1. n <= new.last
    BY DEF Holds, Owned, SuffixOf, IsChain
<1> QED BY <1>1 DEF Holds, SuffixOf, Carries

LEMMA ExtensionHolds ==
    ASSUME NEW c, NEW new, NEW x, NEW n, NEW e, IsChain(c), ExtensionOf(new, c, x), Holds(c, n, e)
    PROVE  Holds(new, n, e)
<1>1. n \in Owned(new)
    BY DEF Holds, Owned, ExtensionOf, IsChain
<1> QED BY <1>1 DEF Holds, ExtensionOf

LEMMA JoinHolds ==
    ASSUME NEW c, NEW m, NEW new, NEW n, NEW e, IsChain(c), IsChain(m), JoinOf(new, c, m),
           Holds(c, n, e), Carries(m, n, e)
    PROVE  Holds(new, n, e)
<1>1. n \in Owned(new) /\ n \in Owned(c) /\ n \in Int /\ m.base \in Int
    BY DEF Holds, Carries, Owned, JoinOf, IsChain
<1>2. ~(n <= m.base) => n \in Owned(m)
    BY <1>1 DEF Carries, Owned, IsChain
<1> QED BY <1>1, <1>2 DEF Holds, Carries, JoinOf

-----------------------------------------------------------------------------
(* Chains along which terms ascend. *)

LEMMA SuffixAscends ==
    ASSUME NEW c, NEW new, NEW t, IsChain(c), SuffixOf(new, c), Ascending(c), UpTo(c, t)
    PROVE  Ascending(new) /\ UpTo(new, t)
<1>1. \A n \in Span(new) : n \in Span(c) /\ new.at[n].term = c.at[n].term
    BY DEF SuffixOf, Span, IsChain
<1> QED BY <1>1 DEF Ascending, UpTo

LEMMA ExtensionAscends ==
    ASSUME NEW c, NEW new, NEW x, Typed(c), ExtensionOf(new, c, x), Ascending(c),
           x.term \in Int, UpTo(c, x.term)
    PROVE  Ascending(new) /\ UpTo(new, x.term)
<1>1. \A n \in Span(new) : n \in Span(c) \/ n = new.last
    BY DEF ExtensionOf, Span, Typed, IsChain
<1>2. /\ \A n \in Span(c) : new.at[n].term = c.at[n].term /\ n < new.last
      /\ new.at[new.last].term = x.term
      /\ new.last \notin Span(c)
    BY DEF ExtensionOf, Span, Typed, IsChain
<1>3. UpTo(new, x.term)
    BY <1>1, <1>2 DEF UpTo
<1>4. ASSUME NEW k \in Span(new), NEW n \in Span(new), k <= n
      PROVE  new.at[k].term <= new.at[n].term
    <2>1. CASE n = new.last
        BY <1>2, <1>3, <2>1 DEF UpTo
    <2>2. CASE n \in Span(c)
        <3>1. k \in Span(c)
            BY <1>1, <1>2, <1>4, <2>2, SpanOwned DEF Typed, ExtensionOf
        <3> QED BY <1>2, <1>4, <2>2, <3>1 DEF Ascending
    <2> QED BY <1>1, <2>1, <2>2
<1> QED BY <1>3, <1>4 DEF Ascending

LEMMA JoinAscends ==
    ASSUME NEW c, NEW m, NEW new, NEW t \in Int, Typed(c), Typed(m), JoinOf(new, c, m),
           Ascending(c), Ascending(m), UpTo(m, t)
    PROVE  Ascending(new) /\ UpTo(new, t)
<1>1. /\ m.base \in Int /\ m.base \in Span(c) /\ m.base \in Span(m)
      /\ \A n \in Span(new) : n \in Int
      /\ \A n \in Span(new) : n <= m.base => n \in Span(c)
      /\ \A n \in Span(new) : ~(n <= m.base) => n \in Span(m)
    BY DEF JoinOf, Span, Typed, IsChain
<1>2. /\ \A n \in Span(new) : new.at[n].term = IF n <= m.base THEN c.at[n].term ELSE m.at[n].term
      /\ c.at[m.base].term = m.at[m.base].term
    BY DEF JoinOf
<1>3. ASSUME NEW k \in Span(new), NEW n \in Span(new), k <= n
      PROVE  new.at[k].term <= new.at[n].term
    <2>1. CASE n <= m.base
        BY <1>1, <1>2, <1>3, <2>1 DEF Ascending
    <2>2. CASE ~(n <= m.base) /\ ~(k <= m.base)
        BY <1>1, <1>2, <1>3, <2>2 DEF Ascending
    <2>3. CASE ~(n <= m.base) /\ k <= m.base
        <3>1. n \in Span(m) /\ k \in Span(c) /\ m.base <= n
            BY <1>1, <2>3
        <3>2. c.at[k].term <= c.at[m.base].term /\ m.at[m.base].term <= m.at[n].term
            BY <1>1, <2>3, <3>1 DEF Ascending
        <3>3. c.at[k].term \in Int /\ c.at[m.base].term \in Int /\ m.at[n].term \in Int
            BY <1>1, <3>1 DEF Typed
        <3> QED BY <1>2, <2>3, <3>2, <3>3
    <2> QED BY <1>1, <1>3, <2>1, <2>2, <2>3
<1>4. ASSUME NEW n \in Span(new) PROVE new.at[n].term <= t
    <2>1. CASE ~(n <= m.base)
        BY <1>1, <1>2, <2>1 DEF UpTo
    <2>2. CASE n <= m.base
        <3>1. c.at[n].term <= c.at[m.base].term /\ m.at[m.base].term <= t
            BY <1>1, <2>2 DEF Ascending, UpTo
        <3>2. c.at[n].term \in Int /\ c.at[m.base].term \in Int
            BY <1>1, <2>2 DEF Typed
        <3> QED BY <1>2, <2>2, <3>1, <3>2
    <2> QED BY <2>1, <2>2
<1> QED BY <1>3, <1>4 DEF Ascending, UpTo

-----------------------------------------------------------------------------
(* The chains there are. *)

ChainsTyped == \A c \in Chains : Typed(c)

LEMMA ChainTypes == TypeOK => ChainsTyped
<1> SUFFICES ASSUME TypeOK, NEW c \in Chains PROVE Typed(c)
    BY DEF ChainsTyped
<1>1. IsChain(c) /\ \A n \in Owned(c) : c.at[n].term \in Int
    BY ChainsAreChains DEF Entry
<1>2. c.base <= c.last /\ c.at[c.base].term \in Int
    <2>1. ASSUME NEW i \in Node, c = LogChain(i) PROVE c.base <= c.last /\ c.at[c.base].term \in Int
        <3>1. lastIncludedTerm[i] \in Nat
            BY DEF TypeOK
        <3> QED BY <2>1, <3>1, LogChains DEF LogChainsAre, LogChainIs
    <2>2. ASSUME NEW m \in Calls, c = CallChain(m)
          PROVE  c.base <= c.last /\ c.at[c.base].term \in Int
        <3>1. m \in AppendEntriesRpc
            BY RpcTypes DEF Calls, TypeOK
        <3>2. m.prevLogTerm \in Int
            BY <3>1 DEF AppendEntriesRpc
        <3> QED BY <2>2, <3>1, <3>2, CallChainIs
    <2> QED BY <2>1, <2>2 DEF Chains
<1> QED BY <1>1, <1>2, SpanOwned DEF Typed

LEMMA CallTypes ==
    ASSUME TypeOK, NEW m \in Calls
    PROVE  /\ m \in rpcs /\ m.from \in Node /\ m.to \in Node /\ m.term \in Nat
           /\ m.leaderCommit \in Nat
           /\ CallChain(m) \in Chains
<1>1. m \in rpcs /\ m.type = "AppendEntries"
    BY DEF Calls
<1>2. m \in AppendEntriesRpc
    BY <1>1, RpcTypes DEF TypeOK
<1> QED BY <1>1, <1>2 DEF AppendEntriesRpc, Chains

\* Without compaction every log begins with the entry Make puts there.
StartsAre ==
    \A i \in Node : /\ FromStart(LogChain(i)) /\ LogChain(i).at[0].term = 0
                     /\ LogChain(i).last = LastLogIndex(i)
                     /\ LogChain(i).at[LastLogIndex(i)].term = LastLogTerm(i)

LEMMA Starts == TypeOK /\ NoSnapshots => StartsAre
<1> SUFFICES ASSUME TypeOK, NoSnapshots, NEW i \in Node
             PROVE  /\ FromStart(LogChain(i)) /\ LogChain(i).at[0].term = 0
                    /\ LogChain(i).last = LastLogIndex(i)
                    /\ LogChain(i).at[LastLogIndex(i)].term = LastLogTerm(i)
    BY DEF StartsAre
<1>1. /\ lastIncludedIndex[i] = 0 /\ lastIncludedTerm[i] = 0 /\ log[i][1].term = 0
      /\ Len(log[i]) \in Nat \ {0}
    BY EntryTypes DEF NoSnapshots
<1>2. LastLogIndex(i) = Len(log[i]) - 1
    BY <1>1 DEF LastLogIndex
<1>3. LogChainIs(i)
    BY LogChains DEF LogChainsAre
<1>4. FromStart(LogChain(i)) /\ LogChain(i).at[0].term = 0 /\ LogChain(i).last = LastLogIndex(i)
    BY <1>1, <1>3 DEF LogChainIs, FromStart
<1>5. CASE LastLogIndex(i) = 0
    BY <1>1, <1>2, <1>4, <1>5 DEF LastLogTerm
<1>6. CASE LastLogIndex(i) # 0
    <2>1. LastLogIndex(i) \in Held(i)
        <3>1. PICK last \in Nat : last = LastLogIndex(i)
            BY EntryTypes
        <3>2. last \in (0 + 1) .. last
            BY <1>6, <3>1
        <3> QED BY <1>1, <3>1, <3>2 DEF Held
    <2>2. LogChain(i).at[LastLogIndex(i)] = EntryAt(i, LastLogIndex(i))
        BY <1>3, <2>1 DEF LogChainIs
    <2>3. EntryAt(i, LastLogIndex(i)) = log[i][Len(log[i])]
        BY <1>1, <1>2 DEF EntryAt
    <2> QED BY <1>4, <2>2, <2>3 DEF LastLogTerm
<1> QED BY <1>4, <1>5, <1>6

-----------------------------------------------------------------------------
(* What a step does. *)

Bookkeeping ==
    NoSnapshots /\ OneCall /\ TermsAscend /\ RequestsAreCurrent /\ CallsFromLog /\ FollowersWithin

\* The steps there are without compaction.
NodeMoves(i) ==
    \/ ElectionTimeout(i)
    \/ QuietTick(i)
    \/ \E j \in Node : SendAppendEntries(i, j)
    \/ \E command \in Value : Start(i, command)
    \/ ApplierTake(i)
    \/ ServiceApply(i)
    \/ Restart(i)

CallMoves(m) ==
    \/ RejectStale(m)
    \/ HandleRequestVote(m)
    \/ RejectAppendEntries(m)
    \/ AcceptAppendEntries(m)
    \/ HandleNewerTerm(m)
    \/ HandleRequestVoteReply(m)
    \/ HandleAppendEntriesReply(m)
    \/ Lose(m)

Moves ==
    \/ \E i \in Node : NodeMoves(i)
    \/ \E m \in rpcs : CallMoves(m)
    \/ UNCHANGED vars

LEMMA StepMoves ==
    ASSUME TypeOK, NoSnapshots, FollowersWithin, [Next]_vars
    PROVE  Moves
<1>1. ASSUME NEW i \in Node, NodeStep(i) PROVE NodeMoves(i)
    <2>1. ~Snapshot(i)
        BY DEF Snapshot, NoSnapshots
    <2>2. ASSUME NEW j \in Node PROVE ~SendInstallSnapshot(i, j)
        <3> SUFFICES ASSUME SendInstallSnapshot(i, j) PROVE FALSE
            OBVIOUS
        <3>1. state[i] = "Leader" /\ nextIndex[i][j] <= lastIncludedIndex[i]
            BY DEF SendInstallSnapshot
        <3>2. nextIndex[i][j] \in 1 .. LastLogIndex(i) + 1 /\ lastIncludedIndex[i] = 0
            BY <3>1 DEF FollowersWithin, NoSnapshots
        <3>3. nextIndex[i][j] >= 1 /\ nextIndex[i][j] \in Int
            <4>1. PICK last \in Nat : last = LastLogIndex(i)
                BY EntryTypes
            <4> QED BY <3>2, <4>1
        <3> QED BY <3>1, <3>2, <3>3
    <2> QED BY <1>1, <2>1, <2>2 DEF NodeStep, NodeMoves
<1>2. ASSUME NEW m \in rpcs, CallStep(m) PROVE CallMoves(m)
    <2>1. m.type \notin {"InstallSnapshot", "SnapshotMsg", "InstallSnapshotReply"}
        BY DEF NoSnapshots
    <2>2. ~HandleInstallSnapshot(m) /\ ~HandleInstallSnapshotReply(m) /\ ~ServiceRestore(m)
        BY <2>1 DEF HandleInstallSnapshot, HandleInstallSnapshotReply, ServiceRestore
    <2> QED BY <1>2, <2>2 DEF CallStep, CallMoves, HandleAppendEntries
<1> QED BY <1>1, <1>2 DEF Next, Moves

\* A leader appends an entry of its term.
Grows(i) ==
    /\ state[i] = "Leader" /\ state'[i] = "Leader" /\ currentTerm'[i] = currentTerm[i]
    /\ \E e : e.term = currentTerm[i] /\ ExtensionOf(LogChain(i)', LogChain(i), e)
    /\ NoNewCall

\* A follower joins the call m to its log.
Accepts(i, m) ==
    /\ m \in Calls /\ m.to = i
    /\ currentTerm[i] <= m.term /\ currentTerm'[i] = m.term
    /\ state'[i] = "Follower"
    /\ JoinOf(LogChain(i)', LogChain(i), CallChain(m))
    /\ \A k \in Calls' : k \in Calls /\ k # m

LogsTraced ==
    \A i \in Node : \/ LogChain(i)' = LogChain(i)
                    \/ Grows(i)
                    \/ \E m \in Calls : Accepts(i, m)

\* The leader i makes the call m.
Sends(i, m) ==
    /\ state[i] = "Leader" /\ state'[i] = "Leader" /\ currentTerm'[i] = currentTerm[i]
    /\ m.from = i /\ m.to # i /\ m.term = currentTerm[i] /\ m.leaderCommit = commitIndex[i]
    /\ SuffixOf(CallChain(m), LogChain(i))
    /\ LogChain(i)' = LogChain(i)

CallsMade ==
    \A m \in Calls' : (\E k \in Calls : SameCall(k, m)) \/ (\E i \in Node : Sends(i, m))

LEMMA StillTraced ==
    ASSUME LogStill, NoNewCall
    PROVE  LogsTraced /\ CallsMade
<1>1. \A i \in Node : LogChain(i)' = LogChain(i)
    BY DEF LogStill, LogChain, LastLogIndex, EntryAt
<1>2. \A m \in Calls' : \E k \in Calls : SameCall(k, m)
    BY DEF NoNewCall, SameCall, Calls, LeaderCall
<1> QED BY <1>1, <1>2 DEF LogsTraced, CallsMade

LEMMA SendTraced ==
    ASSUME TypeOK, FollowersWithin, NEW i \in Node, NEW j \in Node, SendAppendEntries(i, j)
    PROVE  LogsTraced /\ CallsMade
<1> DEFINE call == AppendEntriesCall(i, j)
<1>1. /\ state[i] = "Leader" /\ i # j
      /\ UNCHANGED <<state, currentTerm, log, lastIncludedIndex, lastIncludedTerm>>
      /\ rpcs' = rpcs \cup {call}
    BY DEF SendAppendEntries, Send, persistentVars, roleVars
<1>2. \A k \in Node : LogChain(k)' = LogChain(k)
    BY <1>1 DEF LogChain, LastLogIndex, EntryAt
<1>3. /\ call.type = "AppendEntries" /\ call.from = i /\ call.to = j
      /\ call.term = currentTerm[i] /\ call.leaderCommit = commitIndex[i]
      /\ call.prevLogIndex = nextIndex[i][j] - 1
    BY DEF AppendEntriesCall
<1>4. SuffixOf(CallChain(call), LogChain(i))
    <2>1. PICK last \in Nat : last = LastLogIndex(i)
        BY EntryTypes
    <2>2. nextIndex[i][j] \in 1 .. last + 1
        BY <1>1, <2>1 DEF FollowersWithin
    <2>3. CallChain(call).base = nextIndex[i][j] - 1
        BY <1>3 DEF CallChain
    <2>4. ~(CallChain(call).base > last)
        BY <2>2, <2>3
    <2>5. PICK new : new = CallChain(call)
        OBVIOUS
    <2>6. SuffixOf(new, LogChain(i))
        BY <2>1, <2>4, <2>5, SentCall
    <2> QED BY <2>5, <2>6
<1>5. Sends(i, call)
    BY <1>1, <1>2, <1>3, <1>4 DEF Sends
<1>6. ASSUME NEW m \in Calls'
      PROVE  (\E k \in Calls : SameCall(k, m)) \/ (\E k \in Node : Sends(k, m))
    <2>1. m = call \/ m \in Calls
        BY <1>1 DEF Calls
    <2>2. SameCall(m, m)
        BY DEF SameCall
    <2> QED BY <1>5, <2>1, <2>2
<1> QED BY <1>2, <1>6 DEF LogsTraced, CallsMade

LEMMA StartTraced ==
    ASSUME TypeOK, TypeOK', NEW i \in Node, NEW command \in Value, Start(i, command)
    PROVE  LogsTraced /\ CallsMade /\ Grows(i)
<1> DEFINE e == [term |-> currentTerm[i], command |-> command]
<1>1. UNCHANGED <<currentTerm, state, rpcs>> /\ state[i] = "Leader"
    BY DEF Start, roleVars
<1>2. PICK new : new = LogChain(i)'
    OBVIOUS
<1>3. ExtensionOf(new, LogChain(i), e) /\ OthersKeepLog(i)
    BY <1>2, StartedLog
<1>4. \A j \in Node \ {i} : LogChain(j)' = LogChain(j)
    BY <1>3 DEF OthersKeepLog, LogChain, LastLogIndex, EntryAt
<1>5. NoNewCall
    BY <1>1, FewerCalls
<1>6. Grows(i)
    <2>1. e.term = currentTerm[i]
        OBVIOUS
    <2> HIDE DEF e
    <2> QED BY <1>1, <1>2, <1>3, <1>5, <2>1 DEF Grows
<1>7. CallsMade
    BY <1>5 DEF NoNewCall, SameCall, Calls, LeaderCall, CallsMade
<1> QED BY <1>4, <1>6, <1>7 DEF LogsTraced

LEMMA AcceptTraced ==
    ASSUME TypeOK, TypeOK', NEW m \in rpcs, AcceptAppendEntries(m)
    PROVE  LogsTraced /\ CallsMade /\ Accepts(m.to, m)
<1> DEFINE i == m.to
<1>1. /\ m.type = "AppendEntries" /\ m.term >= currentTerm[i]
      /\ state' = [state EXCEPT ![i] = "Follower"]
      /\ currentTerm' = [currentTerm EXCEPT ![i] = IF m.term > @ THEN m.term ELSE @]
      /\ Respond(m, AppendEntriesReply(m, m.term, TRUE, 0))
    BY DEF AcceptAppendEntries, HearLeader, BecomeFollower
<1>2. m \in Calls /\ i \in Node /\ m.term \in Nat
    BY <1>1, CallTypes DEF Calls
<1>3. /\ state'[i] = "Follower" /\ currentTerm[i] \in Nat
      /\ currentTerm'[i] = IF m.term > currentTerm[i] THEN m.term ELSE currentTerm[i]
    BY <1>1, <1>2 DEF TypeOK
<1>4. currentTerm[i] <= m.term /\ currentTerm'[i] = m.term
    BY <1>1, <1>2, <1>3
<1>5. PICK new : new = LogChain(m.to)'
    OBVIOUS
<1>6. JoinOf(new, LogChain(m.to), CallChain(m)) /\ OthersKeepLog(m.to)
    BY <1>5, AcceptedLog
<1>7. \A j \in Node \ {i} : LogChain(j)' = LogChain(j)
    BY <1>6 DEF OthersKeepLog, LogChain, LastLogIndex, EntryAt
<1>8. \A k \in Calls' : k \in Calls /\ k # m
    BY <1>1 DEF Respond, AppendEntriesReply, Calls
<1>9. Accepts(i, m)
    BY <1>2, <1>3, <1>4, <1>5, <1>6, <1>8 DEF Accepts
<1>10. \A k \in Calls' : SameCall(k, k)
    BY DEF SameCall
<1> QED BY <1>2, <1>7, <1>8, <1>9, <1>10 DEF LogsTraced, CallsMade

LEMMA LogsMove ==
    ASSUME StorageSurvives, ElectionInv, TypeOK', FollowersWithin, Moves
    PROVE  LogsTraced /\ CallsMade
<1>1. TypeOK
    BY DEF ElectionInv
<1>2. ASSUME NEW i \in Node, NodeMoves(i) PROVE LogsTraced /\ CallsMade
    <2>1. CASE ElectionTimeout(i) \/ QuietTick(i) \/ ApplierTake(i) \/ ServiceApply(i) \/ Restart(i)
        BY <2>1, NodeStepStill, StillTraced
    <2>2. CASE \E j \in Node : SendAppendEntries(i, j)
        BY <1>1, <2>2, SendTraced
    <2>3. CASE \E command \in Value : Start(i, command)
        BY <1>1, <2>3, StartTraced
    <2> QED BY <1>2, <2>1, <2>2, <2>3 DEF NodeMoves
<1>3. ASSUME NEW m \in rpcs, CallMoves(m) PROVE LogsTraced /\ CallsMade
    <2>1. CASE AcceptAppendEntries(m)
        BY <1>1, <2>1, AcceptTraced
    <2>2. CASE ~AcceptAppendEntries(m)
        BY <1>1, <1>3, <2>2, CallStepStill, StillTraced DEF CallMoves
    <2> QED BY <2>1, <2>2
<1>4. CASE UNCHANGED vars
    BY <1>4, FewerCalls, StillTraced DEF vars, persistentVars, LogStill
<1> QED BY <1>2, <1>3, <1>4 DEF Moves

SameRequest(k, m) ==
    /\ k.type = m.type /\ k.from = m.from /\ k.term = m.term
    /\ k.lastLogIndex = m.lastLogIndex /\ k.lastLogTerm = m.lastLogTerm

\* A node starts an election.
Asks(m) ==
    /\ m.from \in Node
    /\ m.term = currentTerm'[m.from] /\ currentTerm[m.from] < currentTerm'[m.from]
    /\ m.lastLogIndex = LastLogIndex(m.from) /\ m.lastLogTerm = LastLogTerm(m.from)
    /\ LogStill

\* m is the answer to the request k for a vote, or to the call k.
Ballot(k, m) ==
    /\ k.type = "RequestVote" /\ k.from = m.from /\ k.to = m.to /\ k.term = m.term
    /\ Grant(m) => UpToDate(k, m.to)

Answer(k, m) ==
    /\ k \in Calls /\ k.from = m.from /\ k.to = m.to /\ k.term = m.term
    /\ m.match = CallChain(k).last /\ m.conflictIndex <= m.match
    /\ m.success => Accepts(m.to, k)

MessageTraced(m) ==
    /\ m.type = "RequestVote" => (\E k \in rpcs : SameRequest(k, m)) \/ Asks(m)
    /\ m.type = "RequestVoteReply" => m \in rpcs \/ \E k \in rpcs : Ballot(k, m)
    /\ m.type = "AppendEntriesReply" => m \in rpcs \/ \E k \in rpcs : Answer(k, m)

MessagesTraced == \A m \in rpcs' : MessageTraced(m)

LEMMA OldTraced ==
    ASSUME NEW m \in rpcs
    PROVE  MessageTraced(m)
BY DEF MessageTraced, SameRequest

LEMMA FewerTraced ==
    ASSUME rpcs' \subseteq rpcs
    PROVE  MessagesTraced
BY OldTraced DEF MessagesTraced

LEMMA AnswerTraced ==
    ASSUME NEW m \in rpcs, NEW r, Respond(m, r), MessageTraced(r)
    PROVE  MessagesTraced
BY OldTraced DEF MessagesTraced, Respond

LEMMA CrashTraced ==
    ASSUME TypeOK, NEW i \in Node, rpcs' = AfterCrash(i)
    PROVE  MessagesTraced
<1> DEFINE orphan(k) == [k EXCEPT !.live = FALSE]
<1>1. ASSUME NEW k \in rpcs, k.type \in {"RequestVote", "AppendEntries", "InstallSnapshot",
                                         "SnapshotMsg"}
      PROVE  MessageTraced(orphan(k))
    <2>1. k \in Rpc
        BY DEF TypeOK
    <2>2. orphan(k).type = k.type
        BY <1>1, <2>1, RpcTypes DEF RequestVoteRpc, AppendEntriesRpc, InstallSnapshotRpc,
                                    SnapshotMsgRpc
    <2>3. k.type = "RequestVote" => SameRequest(k, orphan(k))
        BY <2>1, <2>2, RpcTypes DEF RequestVoteRpc, SameRequest
    <2> QED BY <1>1, <2>2, <2>3 DEF MessageTraced
<1> HIDE DEF orphan
<1>2. \A m \in rpcs' :
          \/ m \in rpcs
          \/ \E k \in rpcs : /\ k.type \in {"RequestVote", "AppendEntries",
                                            "InstallSnapshot", "SnapshotMsg"}
                             /\ m = orphan(k)
    BY DEF AfterCrash, orphan
<1> QED BY <1>1, <1>2, OldTraced DEF MessagesTraced

LEMMA ElectionMessages ==
    ASSUME TypeOK, NEW i \in Node, ElectionTimeout(i)
    PROVE  MessagesTraced
<1>1. /\ currentTerm' = [currentTerm EXCEPT ![i] = @ + 1]
      /\ LogStill
    BY DEF ElectionTimeout, LogStill
<1>2. currentTerm'[i] = currentTerm[i] + 1 /\ currentTerm[i] < currentTerm'[i]
    BY <1>1 DEF TypeOK
<1>3. ASSUME NEW j PROVE MessageTraced(RequestVoteCall(i, j))
    <2>1. /\ RequestVoteCall(i, j).type = "RequestVote" /\ RequestVoteCall(i, j).from = i
          /\ RequestVoteCall(i, j).term = currentTerm[i] + 1
          /\ RequestVoteCall(i, j).lastLogIndex = LastLogIndex(i)
          /\ RequestVoteCall(i, j).lastLogTerm = LastLogTerm(i)
        BY DEF RequestVoteCall
    <2>2. Asks(RequestVoteCall(i, j))
        BY <1>1, <1>2, <2>1 DEF Asks
    <2> QED BY <2>1, <2>2 DEF MessageTraced
<1>4. rpcs' = rpcs \/ \E peers : rpcs' = rpcs \cup {RequestVoteCall(i, j) : j \in peers}
    BY DEF ElectionTimeout, Send
<1> QED BY <1>3, <1>4, OldTraced DEF MessagesTraced

LEMMA AppendAnswer ==
    ASSUME TypeOK, NEW m \in rpcs, m.type = "AppendEntries", NEW t, NEW ok \in BOOLEAN,
           NEW c \in Int, c <= m.prevLogIndex,
           ok => Accepts(m.to, m)
    PROVE  MessageTraced(AppendEntriesReply(m, t, ok, c))
<1> DEFINE r == AppendEntriesReply(m, t, ok, c)
<1>1. m \in AppendEntriesRpc /\ m \in Calls
    BY RpcTypes DEF TypeOK, Calls
<1>2. PICK prev \in Nat, len \in Nat : prev = m.prevLogIndex /\ len = Len(m.entries)
    BY <1>1, CallChainIs
<1>3. CallChain(m).last = prev + len
    BY <1>1, <1>2, CallChainIs
<1>4. c <= prev + len
    BY <1>2
<1>5. /\ r.type = "AppendEntriesReply" /\ r.from = m.from /\ r.to = m.to /\ r.term = m.term
      /\ r.match = prev + len /\ r.conflictIndex = c /\ r.success = ok
    BY <1>2 DEF AppendEntriesReply
<1> HIDE DEF r
<1>6. Answer(m, r)
    BY <1>1, <1>3, <1>4, <1>5 DEF Answer
<1>7. MessageTraced(r)
    BY <1>5, <1>6 DEF MessageTraced
<1> QED BY <1>7 DEF r

LEMMA RejectMessages ==
    ASSUME TypeOK, NEW m \in rpcs, RejectAppendEntries(m)
    PROVE  MessagesTraced
<1>1. m.type = "AppendEntries"
    BY DEF RejectAppendEntries, HearLeader
<1>2. m \in AppendEntriesRpc /\ m.to \in Node
    BY <1>1, RpcTypes DEF TypeOK
<1>3. PICK prev \in Nat : prev = m.prevLogIndex
    BY <1>2, CallChainIs
<1>4. PICK last \in Nat : last = LastLogIndex(m.to)
    BY <1>2, EntryTypes
<1>5. \/ prev > last /\ Respond(m, AppendEntriesReply(m, m.term, FALSE, last + 1))
      \/ \E c \in 0 .. prev : Respond(m, AppendEntriesReply(m, m.term, FALSE, c))
    BY <1>3, <1>4 DEF RejectAppendEntries
<1>6. CASE prev > last /\ Respond(m, AppendEntriesReply(m, m.term, FALSE, last + 1))
    <2>1. last + 1 \in Int /\ last + 1 <= prev
        BY <1>6
    <2> QED BY <1>1, <1>3, <1>6, <2>1, AppendAnswer, AnswerTraced
<1>7. CASE \E c \in 0 .. prev : Respond(m, AppendEntriesReply(m, m.term, FALSE, c))
    <2>1. PICK c \in 0 .. prev : Respond(m, AppendEntriesReply(m, m.term, FALSE, c))
        BY <1>7
    <2>2. c \in Int /\ c <= prev
        OBVIOUS
    <2> QED BY <1>1, <1>3, <2>1, <2>2, AppendAnswer, AnswerTraced
<1> QED BY <1>5, <1>6, <1>7

LEMMA AcceptMessages ==
    ASSUME TypeOK, TypeOK', NEW m \in rpcs, AcceptAppendEntries(m)
    PROVE  MessagesTraced
<1>1. Accepts(m.to, m) /\ m.type = "AppendEntries"
    BY AcceptTraced DEF Accepts, Calls
<1>2. 0 \in Int /\ 0 <= m.prevLogIndex
    <2>1. m.prevLogIndex \in Nat
        BY <1>1, RpcTypes, CallChainIs DEF TypeOK
    <2> QED BY <2>1
<1>3. Respond(m, AppendEntriesReply(m, m.term, TRUE, 0))
    BY DEF AcceptAppendEntries
<1> QED BY <1>1, <1>2, <1>3, AppendAnswer, AnswerTraced

LEMMA StaleMessages ==
    ASSUME TypeOK, NEW m \in rpcs, RejectStale(m)
    PROVE  MessagesTraced
<1> DEFINE t == currentTerm[m.to]
<1>1. CASE m.type = "RequestVote"
    <2> DEFINE r == RequestVoteReply(m, t, FALSE)
    <2>1. /\ r.type = "RequestVoteReply" /\ r.from = m.from /\ r.to = m.to /\ r.term = m.term
          /\ r.voteGranted = FALSE
        BY DEF RequestVoteReply
    <2>2. Respond(m, r)
        BY <1>1 DEF RejectStale
    <2> HIDE DEF r
    <2>3. MessageTraced(r)
        BY <1>1, <2>1 DEF MessageTraced, Ballot, Grant
    <2> QED BY <2>2, <2>3, AnswerTraced
<1>2. CASE m.type = "AppendEntries"
    <2>1. 0 \in Int /\ 0 <= m.prevLogIndex
        <3>1. m.prevLogIndex \in Nat
            BY <1>2, RpcTypes, CallChainIs DEF TypeOK
        <3> QED BY <3>1
    <2>2. Respond(m, AppendEntriesReply(m, t, FALSE, 0))
        BY <1>2 DEF RejectStale
    <2> QED BY <1>2, <2>1, <2>2, AppendAnswer, AnswerTraced
<1>3. CASE m.type = "InstallSnapshot"
    <2>1. Respond(m, InstallSnapshotReply(m, t))
        BY <1>3 DEF RejectStale
    <2>2. MessageTraced(InstallSnapshotReply(m, t))
        BY DEF InstallSnapshotReply, MessageTraced
    <2> QED BY <2>1, <2>2, AnswerTraced
<1> QED BY <1>1, <1>2, <1>3 DEF RejectStale

LEMMA VoteMessages ==
    ASSUME NEW m \in rpcs, HandleRequestVote(m)
    PROVE  MessagesTraced
<1> DEFINE r == RequestVoteReply(m, m.term, MayGrant(m, m.to))
<1>1. m.type = "RequestVote" /\ Respond(m, r)
    BY DEF HandleRequestVote
<1>2. /\ r.type = "RequestVoteReply" /\ r.from = m.from /\ r.to = m.to /\ r.term = m.term
      /\ r.voteGranted = MayGrant(m, m.to)
    BY DEF RequestVoteReply
<1> HIDE DEF r
<1>3. MessageTraced(r)
    BY <1>1, <1>2 DEF MessageTraced, Ballot, Grant, MayGrant
<1> QED BY <1>1, <1>3, AnswerTraced

LEMMA MessagesMove ==
    ASSUME TypeOK, TypeOK', Moves
    PROVE  MessagesTraced
<1>1. ASSUME NEW i \in Node, NodeMoves(i) PROVE MessagesTraced
    <2>1. CASE ElectionTimeout(i)
        BY <2>1, ElectionMessages
    <2>2. CASE Restart(i)
        BY <2>2, CrashTraced DEF Restart
    <2>3. ASSUME NEW j \in Node, SendAppendEntries(i, j) PROVE MessagesTraced
        <3>1. rpcs' = rpcs \cup {AppendEntriesCall(i, j)}
            BY <2>3 DEF SendAppendEntries, Send
        <3>2. MessageTraced(AppendEntriesCall(i, j))
            BY DEF AppendEntriesCall, MessageTraced
        <3> QED BY <3>1, <3>2, OldTraced DEF MessagesTraced
    <2>4. CASE QuietTick(i)
        BY <2>4, FewerTraced DEF QuietTick
    <2>5. CASE \E command \in Value : Start(i, command)
        BY <2>5, FewerTraced DEF Start
    <2>6. CASE ApplierTake(i)
        BY <2>6, FewerTraced DEF ApplierTake
    <2>7. CASE ServiceApply(i)
        BY <2>7, FewerTraced DEF ServiceApply
    <2> QED BY <1>1, <2>1, <2>2, <2>3, <2>4, <2>5, <2>6, <2>7 DEF NodeMoves
<1>2. ASSUME NEW m \in rpcs, CallMoves(m) PROVE MessagesTraced
    <2>1. Done(m) => MessagesTraced
        BY FewerTraced DEF Done
    <2>2. CASE HandleNewerTerm(m) \/ HandleRequestVoteReply(m) \/ HandleAppendEntriesReply(m) \/ Lose(m)
        BY <2>1, <2>2 DEF HandleNewerTerm, HandleRequestVoteReply, HandleAppendEntriesReply, Lose
    <2>3. CASE RejectStale(m) \/ HandleRequestVote(m) \/ RejectAppendEntries(m) \/ AcceptAppendEntries(m)
        BY <2>3, StaleMessages, VoteMessages, RejectMessages, AcceptMessages
    <2> QED BY <1>2, <2>2, <2>3 DEF CallMoves
<1>3. CASE UNCHANGED vars
    BY <1>3, FewerTraced DEF vars
<1> QED BY <1>1, <1>2, <1>3 DEF Moves

\* A reply that the leader i uses: from j, about its term or about older entries.
Reports(m, i, j) ==
    m.type = "AppendEntriesReply" /\ m.from = i /\ m.to = j /\ Timely(m)

NewlyLeads(i) ==
    /\ state[i] # "Leader"
    /\ LogStill
    /\ \A j \in Node : /\ matchIndex'[i][j] = IF j = i THEN LastLogIndex(i) ELSE 0
                       /\ nextIndex'[i][j] = LastLogIndex(i) + 1

StillLeads(i) ==
    /\ state[i] = "Leader" /\ currentTerm'[i] = currentTerm[i]
    /\ \A j \in Node :
          \/ matchIndex'[i][j] = matchIndex[i][j] /\ nextIndex'[i][j] = nextIndex[i][j]
          \/ \E m \in rpcs : /\ Reports(m, i, j)
                             /\ m.success
                             /\ matchIndex'[i][j] = m.match /\ nextIndex'[i][j] = m.match + 1
          \/ \E m \in rpcs : /\ Reports(m, i, j)
                             /\ matchIndex'[i][j] = matchIndex[i][j]
                             /\ nextIndex'[i][j] = Backoff(m, i)

LeadersTraced == \A i \in Node : state'[i] = "Leader" => NewlyLeads(i) \/ StillLeads(i)

LEMMA SameLeaders ==
    ASSUME UNCHANGED leaderVars,
           \A i \in Node : state'[i] = "Leader" =>
               state[i] = "Leader" /\ currentTerm'[i] = currentTerm[i]
    PROVE  LeadersTraced
BY DEF LeadersTraced, StillLeads, leaderVars

LEMMA ElectedLeads ==
    ASSUME TypeOK, NEW i \in Node, BecomeLeader(i), state[i] # "Leader", LogStill,
           \A k \in Node \ {i} : currentTerm'[k] = currentTerm[k]
    PROVE  LeadersTraced
<1>1. /\ state' = [state EXCEPT ![i] = "Leader"]
      /\ nextIndex' = [nextIndex EXCEPT ![i] = [j \in Node |-> LastLogIndex(i) + 1]]
      /\ matchIndex' = [matchIndex EXCEPT ![i] = [j \in Node |-> IF j = i THEN LastLogIndex(i) ELSE 0]]
    BY DEF BecomeLeader
<1>2. NewlyLeads(i)
    <2>1. /\ nextIndex'[i] = [j \in Node |-> LastLogIndex(i) + 1]
          /\ matchIndex'[i] = [j \in Node |-> IF j = i THEN LastLogIndex(i) ELSE 0]
        BY <1>1 DEF TypeOK
    <2> QED BY <2>1 DEF NewlyLeads
<1>3. ASSUME NEW k \in Node \ {i}, state'[k] = "Leader" PROVE StillLeads(k)
    <2>1. /\ state'[k] = state[k] /\ nextIndex'[k] = nextIndex[k] /\ matchIndex'[k] = matchIndex[k]
          /\ currentTerm'[k] = currentTerm[k]
        BY <1>1 DEF TypeOK
    <2> QED BY <1>3, <2>1 DEF StillLeads
<1> QED BY <1>2, <1>3 DEF LeadersTraced

LEMMA FollowerLeads ==
    ASSUME TypeOK, NEW i \in Node, NEW t, BecomeFollower(i, t), UNCHANGED leaderVars
    PROVE  LeadersTraced
<1>1. /\ state' = [state EXCEPT ![i] = "Follower"]
      /\ currentTerm' = [currentTerm EXCEPT ![i] = IF t > @ THEN t ELSE @]
    BY DEF BecomeFollower
<1>2. \A k \in Node : state'[k] = "Leader" =>
               state[k] = "Leader" /\ currentTerm'[k] = currentTerm[k]
    BY <1>1 DEF TypeOK
<1> QED BY <1>2, SameLeaders

LEMMA ReportedLeads ==
    ASSUME TypeOK, ~LateReplies, NEW m \in rpcs, HandleAppendEntriesReply(m)
    PROVE  LeadersTraced
<1> DEFINE i == m.from
           j == m.to
<1>1. /\ m.type = "AppendEntriesReply"
      /\ UNCHANGED <<state, currentTerm>>
      /\ state[i] = "Leader" => Timely(m)
    BY DEF HandleAppendEntriesReply, roleVars, persistentVars
<1>2. m \in AppendEntriesReplyRpc /\ i \in Node /\ j \in Node
    BY <1>1, RpcTypes DEF TypeOK
<1>3. CASE UNCHANGED leaderVars
    BY <1>1, <1>3, SameLeaders
<1>4. CASE /\ state[i] = "Leader" /\ m.success
           /\ matchIndex' = [matchIndex EXCEPT ![i][j] = m.match]
           /\ nextIndex' = [nextIndex EXCEPT ![i][j] = m.match + 1]
    <2>1. matchIndex \in [Node -> [Node -> Nat]] /\ nextIndex \in [Node -> [Node -> Nat]]
        BY DEF TypeOK
    <2>2. matchIndex'[i][j] = m.match /\ nextIndex'[i][j] = m.match + 1
        BY <1>2, <1>4, <2>1
    <2>3. \A k, l \in Node : ~(k = i /\ l = j) =>
              matchIndex'[k][l] = matchIndex[k][l] /\ nextIndex'[k][l] = nextIndex[k][l]
        BY <1>2, <1>4, <2>1
    <2>4. Reports(m, i, j)
        BY <1>1, <1>4 DEF Reports
    <2> QED BY <1>1, <1>4, <2>2, <2>3, <2>4 DEF LeadersTraced, StillLeads
<1>5. CASE /\ state[i] = "Leader"
           /\ nextIndex' = [nextIndex EXCEPT ![i][j] = Backoff(m, i)]
           /\ UNCHANGED matchIndex
    <2>1. nextIndex \in [Node -> [Node -> Nat]]
        BY DEF TypeOK
    <2>2. nextIndex'[i][j] = Backoff(m, i)
        BY <1>2, <1>5, <2>1
    <2>3. \A k, l \in Node : ~(k = i /\ l = j) => nextIndex'[k][l] = nextIndex[k][l]
        BY <1>2, <1>5, <2>1
    <2>4. Reports(m, i, j)
        BY <1>1, <1>5 DEF Reports
    <2> QED BY <1>1, <1>5, <2>2, <2>3, <2>4 DEF LeadersTraced, StillLeads
<1> QED BY <1>3, <1>4, <1>5 DEF HandleAppendEntriesReply

LEMMA LeadersMove ==
    ASSUME StorageSurvives, ~LateReplies, ElectionInv, Moves
    PROVE  LeadersTraced
<1>1. TypeOK
    BY DEF ElectionInv
<1>2. UNCHANGED <<state, currentTerm, leaderVars>> => LeadersTraced
    BY SameLeaders
<1>3. ASSUME NEW i \in Node, NodeMoves(i) PROVE LeadersTraced
    <2>1. CASE ElectionTimeout(i)
        <3>1. /\ currentTerm' = [currentTerm EXCEPT ![i] = @ + 1] /\ state[i] # "Leader" /\ LogStill
              /\ \/ BecomeLeader(i)
                 \/ state' = [state EXCEPT ![i] = "Candidate"] /\ UNCHANGED leaderVars
            BY <2>1 DEF ElectionTimeout, LogStill
        <3>2. \A k \in Node \ {i} : currentTerm'[k] = currentTerm[k]
            BY <1>1, <3>1 DEF TypeOK
        <3>3. CASE BecomeLeader(i)
            BY <1>1, <3>1, <3>2, <3>3, ElectedLeads
        <3>4. CASE state' = [state EXCEPT ![i] = "Candidate"] /\ UNCHANGED leaderVars
            <4>1. \A k \in Node : state'[k] = "Leader" =>
                      state[k] = "Leader" /\ currentTerm'[k] = currentTerm[k]
                BY <1>1, <3>2, <3>4 DEF TypeOK
            <4> QED BY <3>4, <4>1, SameLeaders
        <3> QED BY <3>1, <3>3, <3>4
    <2>2. CASE Restart(i)
        <3>1. /\ UNCHANGED currentTerm
              /\ state' = [state EXCEPT ![i] = "Follower"]
              /\ nextIndex' = [nextIndex EXCEPT ![i] = [j \in Node |-> 0]]
              /\ matchIndex' = [matchIndex EXCEPT ![i] = [j \in Node |-> 0]]
            <4>1. disk[i].currentTerm = currentTerm[i]
                <5>1. disk[i] = InMemory(i)
                    BY DEF ElectionInv, Durable
                <5> QED BY <5>1 DEF InMemory
            <4> QED BY <1>1, <2>2, <4>1 DEF Restart, TypeOK
        <3>2. ASSUME NEW k \in Node, state'[k] = "Leader" PROVE StillLeads(k)
            <4>1. k # i /\ state'[k] = state[k] /\ currentTerm'[k] = currentTerm[k]
                BY <1>1, <3>1, <3>2 DEF TypeOK
            <4>2. nextIndex'[k] = nextIndex[k] /\ matchIndex'[k] = matchIndex[k]
                BY <1>1, <3>1, <4>1 DEF TypeOK
            <4> QED BY <3>2, <4>1, <4>2 DEF StillLeads
        <3> QED BY <3>2 DEF LeadersTraced
    <2>3. CASE QuietTick(i)
        BY <1>2, <2>3 DEF QuietTick, persistentVars
    <2>4. CASE \E j \in Node : SendAppendEntries(i, j)
        BY <1>2, <2>4 DEF SendAppendEntries, persistentVars, roleVars
    <2>5. CASE \E command \in Value : Start(i, command)
        BY <1>2, <2>5 DEF Start, persistentVars, roleVars
    <2>6. CASE ApplierTake(i)
        BY <1>2, <2>6 DEF ApplierTake, persistentVars, roleVars
    <2>7. CASE ServiceApply(i)
        BY <1>2, <2>7 DEF ServiceApply, persistentVars, roleVars
    <2> QED BY <1>3, <2>1, <2>2, <2>3, <2>4, <2>5, <2>6, <2>7 DEF NodeMoves
<1>4. ASSUME NEW m \in rpcs, CallMoves(m) PROVE LeadersTraced
    <2>1. m.from \in Node /\ m.to \in Node
        BY <1>1, RpcTypes DEF TypeOK
    <2>2. CASE RejectStale(m)
        BY <1>2, <2>2 DEF RejectStale, persistentVars, roleVars
    <2>3. CASE HandleRequestVote(m)
        <3>1. /\ UNCHANGED leaderVars
              /\ m.type = "RequestVote" /\ m.term >= currentTerm[m.to]
              /\ state' = [state EXCEPT ![m.to] = IF m.term > currentTerm[m.to] THEN "Follower" ELSE @]
              /\ currentTerm' = [currentTerm EXCEPT ![m.to] = m.term]
            BY <2>3 DEF HandleRequestVote
        <3>2. m.term \in Nat
            BY <1>1, <3>1, RpcTypes DEF TypeOK, RequestVoteRpc
        <3>3. ASSUME NEW k \in Node, state'[k] = "Leader"
              PROVE  state[k] = "Leader" /\ currentTerm'[k] = currentTerm[k]
            <4>1. /\ state \in [Node -> {"Follower", "Candidate", "Leader"}]
                  /\ currentTerm \in [Node -> Nat]
                BY <1>1 DEF TypeOK
            <4>2. CASE k # m.to
                BY <2>1, <3>1, <3>3, <4>1, <4>2
            <4>3. CASE k = m.to
                <5>1. /\ state'[k] = IF m.term > currentTerm[k] THEN "Follower" ELSE state[k]
                      /\ currentTerm'[k] = m.term
                    BY <2>1, <3>1, <4>1, <4>3
                <5>2. currentTerm[k] \in Nat
                    BY <4>1
                <5> QED BY <3>1, <3>2, <3>3, <4>3, <5>1, <5>2
            <4> QED BY <4>2, <4>3
        <3> QED BY <3>1, <3>3, SameLeaders
    <2>4. CASE RejectAppendEntries(m)
        BY <1>1, <2>1, <2>4, FollowerLeads DEF RejectAppendEntries, HearLeader
    <2>5. CASE AcceptAppendEntries(m)
        BY <1>1, <2>1, <2>5, FollowerLeads DEF AcceptAppendEntries, HearLeader
    <2>6. CASE HandleNewerTerm(m)
        BY <1>1, <2>1, <2>6, FollowerLeads DEF HandleNewerTerm, StepDown
    <2>7. CASE HandleRequestVoteReply(m)
        <3>1. UNCHANGED <<currentTerm, log, lastIncludedIndex, lastIncludedTerm>>
            BY <2>7 DEF HandleRequestVoteReply, persistentVars
        <3>2. \/ state[m.from] = "Candidate" /\ BecomeLeader(m.from)
              \/ UNCHANGED <<state, leaderVars>>
            BY <2>7 DEF HandleRequestVoteReply
        <3> QED BY <1>1, <1>2, <2>1, <3>1, <3>2, ElectedLeads DEF LogStill
    <2>8. CASE HandleAppendEntriesReply(m)
        BY <1>1, <2>8, ReportedLeads
    <2>9. CASE Lose(m)
        BY <1>2, <2>9 DEF Lose, persistentVars, roleVars
    <2> QED BY <1>4, <2>2, <2>3, <2>4, <2>5, <2>6, <2>7, <2>8, <2>9 DEF CallMoves
<1>5. CASE UNCHANGED vars
    BY <1>2, <1>5 DEF vars, persistentVars, roleVars
<1> QED BY <1>3, <1>4, <1>5 DEF Moves

-----------------------------------------------------------------------------
(* Majorities. *)

LEMMA MajoritySuperset ==
    ASSUME NEW S \in SUBSET Node, NEW R \in SUBSET Node, IsMajority(S), S \subseteq R
    PROVE  IsMajority(R)
<1>1. IsFiniteSet(R) /\ S \in SUBSET R
    BY NodeAssumption, FS_Subset
<1>2. /\ Cardinality(S) <= Cardinality(R) /\ Cardinality(Node) \in Nat
      /\ Cardinality(S) \in Nat /\ Cardinality(R) \in Nat
    BY <1>1, NodeAssumption, FS_Subset, FS_CardinalityType
<1> QED BY <1>2 DEF IsMajority

LEMMA MajoritiesMeet ==
    ASSUME NEW S \in SUBSET Node, NEW R \in SUBSET Node, IsMajority(S), IsMajority(R)
    PROVE  \E j \in Node : j \in S /\ j \in R
<1>1. /\ IsFiniteSet(Node) /\ Cardinality(Node) \in Nat
      /\ Cardinality(S) \in Nat /\ Cardinality(R) \in Nat
    BY NodeAssumption, FS_Subset, FS_CardinalityType
<1>2. Cardinality(S) + Cardinality(R) > Cardinality(Node)
    BY <1>1 DEF IsMajority
<1>3. S \cap R # {}
    BY <1>1, <1>2, FS_MajoritiesIntersect
<1> QED BY <1>3

LEMMA MajorityOfOne ==
    ASSUME NEW i \in Node, IsMajority({i})
    PROVE  Node = {i}
<1>1. /\ IsFiniteSet(Node) /\ Cardinality(Node) \in Nat /\ Cardinality({i}) = 1
    BY NodeAssumption, FS_CardinalityType, FS_Singleton
<1>2. Cardinality({i}) <= Cardinality(Node)
    BY <1>1, FS_Subset
<1>3. Cardinality(Node) = 1
    BY <1>1, <1>2 DEF IsMajority
<1> QED BY <1>1, <1>3, FS_Singleton

LEMMA MajorityMember ==
    ASSUME NEW S \in SUBSET Node, IsMajority(S)
    PROVE  \E j \in Node : j \in S
BY MajoritiesMeet

\* Of an odd number of nodes, a majority has reached the middle of the sorted matchIndex.
LEMMA MiddleReached ==
    ASSUME Cardinality(Node) % 2 = 1, NEW match, NEW n, AtMiddle(match, n)
    PROVE  IsMajority({j \in Node : ~(match[j] < n)})
<1> DEFINE S == {j \in Node : match[j] < n}
           R == {j \in Node : ~(match[j] < n)}
<1>1. /\ IsFiniteSet(Node) /\ Cardinality(Node) \in Nat /\ Cardinality(S) \in Nat
    BY NodeAssumption, FS_Subset, FS_CardinalityType
<1>2. R = Node \ S /\ Node \cap S = S
    OBVIOUS
<1> HIDE DEF S, R
<1>3. Cardinality(R) = Cardinality(Node) - Cardinality(S)
    <2>1. Cardinality(Node \ S) = Cardinality(Node) - Cardinality(Node \cap S)
        BY <1>1, FS_Difference
    <2> QED BY <1>2, <2>1
<1>4. Cardinality(S) <= Cardinality(Node) \div 2
    BY DEF AtMiddle, S
<1>5. Cardinality(R) > Cardinality(Node) \div 2
    BY <1>1, <1>3, <1>4
<1> QED BY <1>5 DEF IsMajority, R

-----------------------------------------------------------------------------
(* Commits. *)

\* A leader counts a majority for the entry at its new commitIndex.
CountsCommit(i) ==
    /\ state[i] = "Leader" /\ state'[i] = "Leader" /\ currentTerm'[i] = currentTerm[i]
    /\ \E n \in Nat : /\ n = commitIndex'[i] /\ n > commitIndex[i]
                      /\ LogTerm(i, n)' = currentTerm[i]
                      /\ IsMajority({j \in Node : j = i \/ matchIndex'[i][j] >= n})

\* What i has given to its service, or is about to.
Given(i) == applied[i] \cup {applyChan[i][k] : k \in DOMAIN applyChan[i]}

Restarted(i) ==
    commitIndex'[i] = 0 /\ lastApplied'[i] = 0 /\ \A p \in Given(i)' : FALSE

CommitsTraced ==
    \A i \in Node : \/ commitIndex'[i] = commitIndex[i]
                    \/ Restarted(i)
                    \/ CountsCommit(i)
                    \/ \E m \in Calls : Accepts(i, m) /\ commitIndex'[i] = NewCommitIndex(m, i)

\* The applier takes the entry p.
Takes(i, p) ==
    /\ lastApplied[i] < commitIndex[i]
    /\ p.index = lastApplied[i] + 1
    /\ p.index + 1 \in 1 .. Len(log[i])
    /\ p.entry = log[i][p.index + 1]

AppliedTraced ==
    \A i \in Node :
        \/ Restarted(i)
        \/ /\ \/ lastApplied'[i] = lastApplied[i]
              \/ lastApplied'[i] = lastApplied[i] + 1 /\ lastApplied[i] < commitIndex[i]
                 /\ commitIndex'[i] = commitIndex[i]
           /\ \A p \in Given(i)' : p \in Given(i) \/ Takes(i, p)

LEMMA CountedCommit ==
    ASSUME Cardinality(Node) % 2 = 1, TypeOK, TypeOK', NEW i \in Node, UpdateCommitIndex(i),
           state[i] = "Leader", state'[i] = "Leader", currentTerm'[i] = currentTerm[i]
    PROVE  CommitsTraced /\ (UNCHANGED commitIndex \/ CountsCommit(i))
<1> DEFINE match == [matchIndex'[i] EXCEPT ![i] = LastLogIndex(i)']
<1>1. PICK n \in {match[j] : j \in Node} :
          /\ AtMiddle(match, n)
          /\ commitIndex' = [commitIndex EXCEPT ![i] = IF MayCommit(i, n) THEN n ELSE @]
    BY DEF UpdateCommitIndex
<1>2. matchIndex'[i] \in [Node -> Nat] /\ LastLogIndex(i)' \in Nat
    <2>1. (TypeOK => LastIndexNat)'
        BY LastIndexType, PTL
    <2> QED BY <2>1 DEF LastIndexNat, TypeOK
<1>3. match \in [Node -> Nat] /\ n \in Nat
    BY <1>1, <1>2
<1>4. \A k \in Node \ {i} : commitIndex'[k] = commitIndex[k]
    BY <1>1 DEF TypeOK
<1>5. commitIndex'[i] = IF MayCommit(i, n) THEN n ELSE commitIndex[i]
    BY <1>1 DEF TypeOK
<1>6. ASSUME MayCommit(i, n) PROVE CountsCommit(i)
    <2>1. n = commitIndex'[i] /\ n > commitIndex[i] /\ LogTerm(i, n)' = currentTerm[i]
        BY <1>5, <1>6 DEF MayCommit
    <2>2. IsMajority({j \in Node : ~(match[j] < n)})
        BY <1>1, MiddleReached
    <2>3. {j \in Node : ~(match[j] < n)} \subseteq {j \in Node : j = i \/ matchIndex'[i][j] >= n}
        BY <1>2, <1>3
    <2>4. IsMajority({j \in Node : j = i \/ matchIndex'[i][j] >= n})
        BY <2>2, <2>3, MajoritySuperset
    <2> QED BY <1>3, <2>1, <2>4 DEF CountsCommit
<1>7. ~MayCommit(i, n) => UNCHANGED commitIndex
    BY <1>1 DEF TypeOK
<1> QED BY <1>4, <1>5, <1>6, <1>7 DEF CommitsTraced

LEMMA SameCommits ==
    ASSUME UNCHANGED commitIndex
    PROVE  CommitsTraced
BY DEF CommitsTraced

LEMMA SameApplied ==
    ASSUME UNCHANGED <<lastApplied, applied, applyChan>>
    PROVE  AppliedTraced
BY DEF AppliedTraced, Given

LEMMA RestartTraced ==
    ASSUME StorageSurvives, TypeOK, NoSnapshots, NEW i \in Node, Restart(i)
    PROVE  CommitsTraced /\ AppliedTraced
<1>1. /\ commitIndex' = [commitIndex EXCEPT ![i] = 0]
      /\ lastApplied' = [lastApplied EXCEPT ![i] = 0]
      /\ applied' = [applied EXCEPT ![i] = {}]
      /\ applyChan' = [applyChan EXCEPT ![i] = << >>]
    BY DEF Restart, NoSnapshots
<1>2. Restarted(i)
    <2>1. commitIndex'[i] = 0 /\ lastApplied'[i] = 0 /\ applied'[i] = {} /\ applyChan'[i] = << >>
        BY <1>1 DEF TypeOK
    <2> QED BY <2>1 DEF Restarted, Given
<1>3. \A k \in Node \ {i} : /\ commitIndex'[k] = commitIndex[k] /\ lastApplied'[k] = lastApplied[k]
                            /\ applied'[k] = applied[k] /\ applyChan'[k] = applyChan[k]
    BY <1>1 DEF TypeOK
<1>4. CommitsTraced
    BY <1>2, <1>3 DEF CommitsTraced
<1>5. AppliedTraced
    BY <1>2, <1>3 DEF AppliedTraced, Given
<1> QED BY <1>4, <1>5

LEMMA TakeTraced ==
    ASSUME TypeOK, NoSnapshots, NEW i \in Node, ApplierTake(i)
    PROVE  CommitsTraced /\ AppliedTraced
<1> DEFINE n == lastApplied[i] + 1
<1>1. /\ lastApplied[i] < commitIndex[i] /\ lastApplied' = [lastApplied EXCEPT ![i] = n]
      /\ UNCHANGED <<commitIndex, applied>>
    BY DEF ApplierTake
<1>2. lastIncludedIndex[i] = 0 /\ n \in Nat /\ n >= 1 /\ Len(log[i]) \in Nat
    <2>1. Len(log[i]) \in Nat /\ lastIncludedIndex[i] = 0
        BY EntryTypes DEF NoSnapshots
    <2>2. lastApplied[i] \in Nat
        BY DEF TypeOK
    <2> QED BY <2>1, <2>2
<1>3. n - lastIncludedIndex[i] = n
    BY <1>2
<1>4. \/ /\ n \in 0 .. Len(log[i]) - 1
         /\ applyChan' = [applyChan EXCEPT ![i] = <<[index |-> n, entry |-> log[i][n + 1]]>>]
      \/ UNCHANGED applyChan
    BY <1>3 DEF ApplierTake
<1>5. CommitsTraced
    BY <1>1, SameCommits
<1>6. lastApplied'[i] = n
    BY <1>1 DEF TypeOK
<1>7. \A p \in Given(i)' : p \in Given(i) \/ Takes(i, p)
    <2>1. CASE UNCHANGED applyChan
        BY <1>1, <2>1 DEF Given
    <2>2. CASE /\ n \in 0 .. Len(log[i]) - 1
               /\ applyChan' = [applyChan EXCEPT ![i] = <<[index |-> n, entry |-> log[i][n + 1]]>>]
        <3> DEFINE p == [index |-> n, entry |-> log[i][n + 1]]
        <3>1. applyChan'[i] = <<p>>
            BY <2>2 DEF TypeOK
        <3>2. n + 1 \in 1 .. Len(log[i])
            BY <1>2, <2>2
        <3>3. Takes(i, p)
            BY <1>1, <3>2 DEF Takes
        <3> HIDE DEF p, n
        <3>4. \A q \in Given(i)' : q \in applied[i] \/ q = p
            BY <1>1, <3>1 DEF Given
        <3> QED BY <3>3, <3>4 DEF Given
    <2> QED BY <1>4, <2>1, <2>2
<1>8. \A k \in Node \ {i} : lastApplied'[k] = lastApplied[k] /\ applyChan'[k] = applyChan[k]
    BY <1>1, <1>4 DEF TypeOK
<1> HIDE DEF n
<1>9. n = lastApplied[i] + 1
    BY DEF n
<1>10. AppliedTraced
    BY <1>1, <1>6, <1>7, <1>8, <1>9 DEF AppliedTraced, Given
<1> QED BY <1>5, <1>10

LEMMA GivenTraced ==
    ASSUME TypeOK, NEW i \in Node, ServiceApply(i)
    PROVE  CommitsTraced /\ AppliedTraced
<1>1. /\ UNCHANGED <<commitIndex, lastApplied>>
      /\ applyChan[i] # << >>
      /\ applied' = [applied EXCEPT ![i] = @ \cup {m \in {applyChan[i][1]} : m.entry.command # Nil}]
      /\ applyChan' = [applyChan EXCEPT ![i] = << >>]
    BY DEF ServiceApply, commitVars
<1>2. /\ applied'[i] \subseteq applied[i] \cup {applyChan[i][1]} /\ applyChan'[i] = << >>
      /\ \A k \in Node \ {i} : applied'[k] = applied[k] /\ applyChan'[k] = applyChan[k]
    BY <1>1 DEF TypeOK
<1>3. 1 \in DOMAIN applyChan[i]
    <2>1. applyChan[i] \in Seq(Position)
        BY DEF TypeOK
    <2> QED BY <1>1, <2>1
<1>4. \A p \in Given(i)' : p \in Given(i)
    BY <1>2, <1>3 DEF Given
<1>5. AppliedTraced
    BY <1>1, <1>2, <1>4 DEF AppliedTraced, Given
<1> QED BY <1>1, <1>5, SameCommits

LEMMA CommitsMove ==
    ASSUME StorageSurvives, Cardinality(Node) % 2 = 1, TypeOK, TypeOK', NoSnapshots, Moves
    PROVE  CommitsTraced /\ AppliedTraced
<1>1. UNCHANGED <<commitVars, serviceVars>> => CommitsTraced /\ AppliedTraced
    BY SameCommits, SameApplied DEF commitVars, serviceVars
<1>2. ASSUME NEW i \in Node, NodeMoves(i) PROVE CommitsTraced /\ AppliedTraced
    <2>1. CASE ElectionTimeout(i) \/ QuietTick(i) \/ \E j \in Node : SendAppendEntries(i, j)
        BY <1>1, <2>1 DEF ElectionTimeout, QuietTick, SendAppendEntries
    <2>2. CASE \E command \in Value : Start(i, command)
        <3>1. /\ state[i] = "Leader" /\ state'[i] = "Leader" /\ currentTerm'[i] = currentTerm[i]
              /\ UpdateCommitIndex(i) /\ UNCHANGED <<lastApplied, serviceVars>>
            BY <2>2 DEF Start, roleVars
        <3> QED BY <3>1, CountedCommit, SameApplied DEF serviceVars
    <2>3. CASE Restart(i)
        BY <2>3, RestartTraced
    <2>4. CASE ApplierTake(i)
        BY <2>4, TakeTraced
    <2>5. CASE ServiceApply(i)
        BY <2>5, GivenTraced
    <2> QED BY <1>2, <2>1, <2>2, <2>3, <2>4, <2>5 DEF NodeMoves
<1>3. ASSUME NEW m \in rpcs, CallMoves(m) PROVE CommitsTraced /\ AppliedTraced
    <2>1. CASE \/ RejectStale(m) \/ HandleRequestVote(m) \/ RejectAppendEntries(m)
               \/ HandleNewerTerm(m) \/ HandleRequestVoteReply(m) \/ Lose(m)
        BY <1>1, <2>1 DEF RejectStale, HandleRequestVote, RejectAppendEntries, HandleNewerTerm,
                          StepDown, HandleRequestVoteReply, Lose
    <2>2. CASE AcceptAppendEntries(m)
        <3>1. /\ commitIndex' = [commitIndex EXCEPT ![m.to] = NewCommitIndex(m, m.to)]
              /\ UNCHANGED <<lastApplied, serviceVars>>
            BY <2>2 DEF AcceptAppendEntries
        <3>2. Accepts(m.to, m) /\ m \in Calls /\ m.to \in Node
            BY <2>2, AcceptTraced, CallTypes DEF Accepts
        <3>3. commitIndex'[m.to] = NewCommitIndex(m, m.to)
              /\ \A k \in Node \ {m.to} : commitIndex'[k] = commitIndex[k]
            BY <3>1, <3>2 DEF TypeOK
        <3>4. CommitsTraced
            BY <3>2, <3>3 DEF CommitsTraced
        <3> QED BY <3>1, <3>4, SameApplied DEF serviceVars
    <2>3. CASE HandleAppendEntriesReply(m)
        <3>1. /\ \/ UNCHANGED commitIndex
                 \/ state[m.from] = "Leader" /\ UpdateCommitIndex(m.from)
              /\ UNCHANGED <<state, currentTerm, lastApplied, serviceVars>>
            BY <2>3 DEF HandleAppendEntriesReply, persistentVars, roleVars
        <3>2. m.from \in Node
            BY RpcTypes DEF TypeOK
        <3> QED BY <3>1, <3>2, CountedCommit, SameCommits, SameApplied DEF serviceVars
    <2> QED BY <1>3, <2>1, <2>2, <2>3 DEF CallMoves
<1>4. CASE UNCHANGED vars
    BY <1>1, <1>4 DEF vars
<1> QED BY <1>2, <1>3, <1>4 DEF Moves

-----------------------------------------------------------------------------
(* The calls in flight, one from a node to another. *)

Answers(m, r) ==
    /\ r.from = m.from /\ r.to = m.to /\ r.type \in {"RequestVoteReply", "AppendEntriesReply"}
    /\ rpcs' \subseteq (rpcs \ {m}) \cup {r}

Issues(i, new) ==
    /\ \A m \in new : m.from = i /\ m.type \in {"RequestVote", "AppendEntries"}
    /\ \A m, k \in new : m.to = k.to => m = k
    /\ Send(new)

RpcsTraced ==
    \/ rpcs' \subseteq rpcs
    \/ \E m \in rpcs : \E r : Answers(m, r)
    \/ \E i \in Node : \E new : Issues(i, new)
    \/ \E i \in Node : rpcs' = AfterCrash(i)

LEMMA RpcsMove ==
    ASSUME NoSnapshots, Moves
    PROVE  RpcsTraced
<1>1. UNCHANGED rpcs => RpcsTraced
    BY DEF RpcsTraced
<1>2. ASSUME NEW i \in Node, NodeMoves(i) PROVE RpcsTraced
    <2>1. CASE ElectionTimeout(i)
        <3>1. ASSUME NEW peers, Send({RequestVoteCall(i, j) : j \in peers}) PROVE RpcsTraced
            <4> DEFINE new == {RequestVoteCall(i, j) : j \in peers}
            <4>1. \A j \in peers : /\ RequestVoteCall(i, j).from = i /\ RequestVoteCall(i, j).to = j
                                   /\ RequestVoteCall(i, j).type = "RequestVote"
                BY DEF RequestVoteCall
            <4>2. \A m \in new : m.from = i /\ m.type \in {"RequestVote", "AppendEntries"}
                BY <4>1
            <4>3. \A m, k \in new : m.to = k.to => m = k
                BY <4>1
            <4> QED BY <3>1, <4>2, <4>3 DEF Issues, RpcsTraced
        <3> QED BY <1>1, <2>1, <3>1 DEF ElectionTimeout
    <2>2. ASSUME NEW j \in Node, SendAppendEntries(i, j) PROVE RpcsTraced
        <3>1. AppendEntriesCall(i, j).from = i /\ AppendEntriesCall(i, j).type = "AppendEntries"
            BY DEF AppendEntriesCall
        <3>2. Issues(i, {AppendEntriesCall(i, j)})
            BY <2>2, <3>1 DEF Issues, SendAppendEntries
        <3> QED BY <3>2 DEF RpcsTraced
    <2>3. CASE Restart(i)
        BY <2>3 DEF Restart, RpcsTraced
    <2>4. CASE \/ QuietTick(i) \/ ApplierTake(i) \/ ServiceApply(i)
               \/ \E command \in Value : Start(i, command)
        BY <1>1, <2>4 DEF QuietTick, ApplierTake, ServiceApply, Start
    <2> QED BY <1>2, <2>1, <2>2, <2>3, <2>4 DEF NodeMoves
<1>3. ASSUME NEW m \in rpcs, CallMoves(m) PROVE RpcsTraced
    <2>1. \A r : /\ r.from = m.from /\ r.to = m.to
                 /\ r.type \in {"RequestVoteReply", "AppendEntriesReply"} /\ Respond(m, r)
                 => RpcsTraced
        BY DEF Respond, Answers, RpcsTraced
    <2>2. \A t, ok : LET r == RequestVoteReply(m, t, ok)
                     IN  r.from = m.from /\ r.to = m.to /\ r.type = "RequestVoteReply"
        BY DEF RequestVoteReply
    <2>3. \A t, ok, c : LET r == AppendEntriesReply(m, t, ok, c)
                        IN  r.from = m.from /\ r.to = m.to /\ r.type = "AppendEntriesReply"
        BY DEF AppendEntriesReply
    <2>4. CASE RejectStale(m)
        <3>1. m.type # "InstallSnapshot"
            BY DEF NoSnapshots
        <3>2. \/ Respond(m, RequestVoteReply(m, currentTerm[m.to], FALSE))
              \/ Respond(m, AppendEntriesReply(m, currentTerm[m.to], FALSE, 0))
            BY <2>4, <3>1 DEF RejectStale
        <3> QED BY <2>1, <2>2, <2>3, <3>2
    <2>5. CASE HandleRequestVote(m)
        BY <2>1, <2>2, <2>5 DEF HandleRequestVote
    <2>6. CASE RejectAppendEntries(m)
        BY <2>1, <2>3, <2>6 DEF RejectAppendEntries
    <2>7. CASE AcceptAppendEntries(m)
        BY <2>1, <2>3, <2>7 DEF AcceptAppendEntries
    <2>8. CASE HandleNewerTerm(m) \/ HandleRequestVoteReply(m) \/ HandleAppendEntriesReply(m) \/ Lose(m)
        BY <2>8 DEF HandleNewerTerm, HandleRequestVoteReply, HandleAppendEntriesReply, Lose, Done,
                    RpcsTraced
    <2> QED BY <1>3, <2>4, <2>5, <2>6, <2>7, <2>8 DEF CallMoves
<1>4. CASE UNCHANGED vars
    BY <1>1, <1>4 DEF vars
<1> QED BY <1>2, <1>3, <1>4 DEF Moves

\* A crash changes no call's ends.
LEMMA CrashedCall ==
    ASSUME TypeOK, NEW i \in Node, NEW m \in AfterCrash(i)
    PROVE  \E k \in rpcs :
              /\ k.from = m.from /\ k.to = m.to /\ k.type = m.type
              /\ \/ m = k /\ m.from # i
                 \/ m = [k EXCEPT !.live = FALSE] /\ m.from = i
<1>1. CASE m \in rpcs /\ m.from # i
    BY <1>1
<1>2. CASE \E k \in rpcs : /\ k.type \in {"RequestVote", "AppendEntries", "InstallSnapshot",
                                          "SnapshotMsg"}
                           /\ k.from = i /\ m = [k EXCEPT !.live = FALSE]
    <2>1. PICK k \in rpcs : /\ k.type \in {"RequestVote", "AppendEntries", "InstallSnapshot",
                                           "SnapshotMsg"}
                            /\ k.from = i /\ m = [k EXCEPT !.live = FALSE]
        BY <1>2
    <2>2. k \in RequestVoteRpc \cup AppendEntriesRpc \cup InstallSnapshotRpc \cup SnapshotMsgRpc
        BY <2>1, RpcTypes DEF TypeOK
    <2>3. k.from = m.from /\ k.to = m.to /\ k.type = m.type
        BY <2>1, <2>2 DEF RequestVoteRpc, AppendEntriesRpc, InstallSnapshotRpc, SnapshotMsgRpc
    <2> QED BY <2>1, <2>3
<1> QED BY <1>1, <1>2 DEF AfterCrash

LEMMA OneCallKept ==
    ASSUME MaxOutstanding = 1, TypeOK, OneCall, RpcsTraced
    PROVE  \A m, n \in rpcs' : m.from = n.from /\ m.to = n.to => m = n
<1>1. \A m, n \in rpcs : m.from = n.from /\ m.to = n.to => m = n
    BY DEF OneCall
<1>2. CASE rpcs' \subseteq rpcs
    BY <1>1, <1>2
<1>3. ASSUME NEW m \in rpcs, NEW r, Answers(m, r)
      PROVE  \A x, y \in rpcs' : x.from = y.from /\ x.to = y.to => x = y
    BY <1>1, <1>3 DEF Answers
<1>4. ASSUME NEW i \in Node, NEW new, Issues(i, new)
      PROVE  \A x, y \in rpcs' : x.from = y.from /\ x.to = y.to => x = y
    <2>1. /\ rpcs' = rpcs \cup new
          /\ \A x \in new : x.slot \in FreeSlots(x.from, x.to)
        BY <1>4 DEF Issues, Send
    <2>2. \A x \in rpcs : x.slot \in Slots
        BY RpcTypes DEF TypeOK
    <2>3. Slots = {1}
        BY DEF Slots
    <2>4. ASSUME NEW x \in new, NEW y \in rpcs, x.from = y.from, x.to = y.to PROVE FALSE
        BY <2>1, <2>2, <2>3, <2>4 DEF FreeSlots
    <2> QED BY <1>1, <1>4, <2>1, <2>4 DEF Issues
<1>5. ASSUME NEW i \in Node, rpcs' = AfterCrash(i)
      PROVE  \A x, y \in rpcs' : x.from = y.from /\ x.to = y.to => x = y
    <2> SUFFICES ASSUME NEW x \in AfterCrash(i), NEW y \in AfterCrash(i),
                        x.from = y.from, x.to = y.to
                 PROVE  x = y
        BY <1>5
    <2>1. PICK k \in rpcs : /\ k.from = x.from /\ k.to = x.to
                            /\ \/ x = k /\ x.from # i
                               \/ x = [k EXCEPT !.live = FALSE] /\ x.from = i
        BY CrashedCall
    <2>2. PICK l \in rpcs : /\ l.from = y.from /\ l.to = y.to
                            /\ \/ y = l /\ y.from # i
                               \/ y = [l EXCEPT !.live = FALSE] /\ y.from = i
        BY CrashedCall
    <2>3. k = l
        BY <1>1, <2>1, <2>2
    <2> QED BY <2>1, <2>2, <2>3
<1> QED BY <1>2, <1>3, <1>4, <1>5 DEF RpcsTraced

\* Nothing makes a snapshot.
LEMMA DisksMove ==
    ASSUME StorageSurvives, ~Compaction, TypeOK, NoSnapshots, Moves
    PROVE  \A i \in Node : compacting'[i] = << >> /\ disk'[i].snapshot = {}
<1>1. \A i \in Node : compacting[i] = << >> /\ disk[i].snapshot = {}
    BY DEF NoSnapshots
<1>2. ASSUME NEW k \in Node, Persist(k) PROVE \A i \in Node : disk'[i].snapshot = {}
    <2>1. disk' = [disk EXCEPT ![k] = Encoded(k, {})]
        BY <1>1, <1>2 DEF Persist, PersistSnapshot, Save
    <2>2. Encoded(k, {}).snapshot = {}
        BY DEF Encoded
    <2> HIDE DEF Encoded
    <2>3. \A i \in Node : disk'[i] = IF i = k THEN Encoded(k, {}) ELSE disk[i]
        BY <2>1 DEF TypeOK
    <2> QED BY <1>1, <2>2, <2>3
<1>3. ASSUME NEW i \in Node, NodeMoves(i)
      PROVE  \A k \in Node : compacting'[k] = << >> /\ disk'[k].snapshot = {}
    <2>1. CASE ElectionTimeout(i) \/ \E command \in Value : Start(i, command)
        BY <1>1, <1>2, <2>1 DEF ElectionTimeout, Start, serviceVars
    <2>2. CASE QuietTick(i) \/ ApplierTake(i) \/ \E j \in Node : SendAppendEntries(i, j)
        BY <1>1, <2>2 DEF QuietTick, ApplierTake, SendAppendEntries, persistentVars, serviceVars
    <2>3. CASE ServiceApply(i)
        BY <1>1, <2>3 DEF ServiceApply, persistentVars
    <2>4. CASE Restart(i)
        <3>1. disk' = [disk EXCEPT ![i] = disk[i]] /\ compacting' = [compacting EXCEPT ![i] = << >>]
            BY <2>4 DEF Restart, Save
        <3> QED BY <1>1, <3>1 DEF TypeOK
    <2> QED BY <1>3, <2>1, <2>2, <2>3, <2>4 DEF NodeMoves
<1>4. ASSUME NEW m \in rpcs, CallMoves(m)
      PROVE  \A k \in Node : compacting'[k] = << >> /\ disk'[k].snapshot = {}
    <2>1. m.from \in Node /\ m.to \in Node
        BY RpcTypes DEF TypeOK
    <2>2. CASE \/ RejectStale(m) \/ HandleRequestVoteReply(m) \/ HandleAppendEntriesReply(m)
               \/ Lose(m)
        BY <1>1, <2>2 DEF RejectStale, HandleRequestVoteReply, HandleAppendEntriesReply, Lose,
                          persistentVars, serviceVars
    <2>3. CASE \/ HandleRequestVote(m) \/ RejectAppendEntries(m) \/ AcceptAppendEntries(m)
               \/ HandleNewerTerm(m)
        BY <1>1, <1>2, <2>1, <2>3 DEF HandleRequestVote, RejectAppendEntries,
                          AcceptAppendEntries, HandleNewerTerm, StepDown, serviceVars
    <2> QED BY <1>4, <2>2, <2>3 DEF CallMoves
<1>5. CASE UNCHANGED vars
    BY <1>1, <1>5 DEF vars, persistentVars, serviceVars
<1> QED BY <1>3, <1>4, <1>5 DEF Moves

\* The entry Make puts into a log stays.
LEMMA FirstsMove ==
    ASSUME StorageSurvives, ElectionInv, NoSnapshots, Moves
    PROVE  \A i \in Node : log'[i][1].term = 0
<1>1. TypeOK /\ \A i \in Node : log[i][1].term = 0 /\ lastIncludedIndex[i] = 0
    BY DEF ElectionInv, NoSnapshots
<1>2. LogStill => \A i \in Node : log'[i][1].term = 0
    BY <1>1 DEF LogStill
<1>3. ASSUME NEW i \in Node, NEW s \in Seq(Entry), log' = [log EXCEPT ![i] = s],
             s[1] = log[i][1]
      PROVE  \A k \in Node : log'[k][1].term = 0
    <2>1. \A k \in Node : log'[k] = IF k = i THEN s ELSE log[k]
        BY <1>1, <1>3 DEF TypeOK
    <2> QED BY <1>1, <1>3, <2>1
<1>4. ASSUME NEW i \in Node
      PROVE  log[i] \in Seq(Entry) /\ Len(log[i]) \in Nat \ {0}
    BY <1>1, EntryTypes DEF TypeOK, Log
<1>5. ASSUME NEW i \in Node, NodeMoves(i) PROVE \A k \in Node : log'[k][1].term = 0
    <2>1. CASE ElectionTimeout(i) \/ QuietTick(i) \/ ApplierTake(i) \/ ServiceApply(i) \/ Restart(i)
        BY <1>2, <2>1, NodeStepStill
    <2>2. CASE \E j \in Node : SendAppendEntries(i, j)
        BY <1>2, <2>2 DEF SendAppendEntries, persistentVars, LogStill
    <2>3. ASSUME NEW command \in Value, Start(i, command)
          PROVE  \A k \in Node : log'[k][1].term = 0
        <3> DEFINE e == [term |-> currentTerm[i], command |-> command]
        <3>1. log' = [log EXCEPT ![i] = Append(log[i], e)]
            BY <2>3 DEF Start
        <3>2. e \in Entry
            BY <1>1 DEF TypeOK, Entry
        <3> HIDE DEF e
        <3>3. Append(log[i], e) \in Seq(Entry) /\ Append(log[i], e)[1] = log[i][1]
            BY <1>4, <3>2
        <3> QED BY <1>3, <3>1, <3>3
    <2> QED BY <1>5, <2>1, <2>2, <2>3 DEF NodeMoves
<1>6. ASSUME NEW m \in rpcs, CallMoves(m) PROVE \A k \in Node : log'[k][1].term = 0
    <2>1. CASE ~AcceptAppendEntries(m)
        BY <1>1, <1>2, <1>6, <2>1, CallStepStill DEF CallMoves
    <2>2. CASE AcceptAppendEntries(m)
        <3> DEFINE i == m.to
        <3>1. /\ m.type = "AppendEntries" /\ log' = [log EXCEPT ![i] = NewLog(m, i)]
              /\ m.prevLogIndex \in lastIncludedIndex[i] .. LastLogIndex(i)
            BY <2>2 DEF AcceptAppendEntries, HearLeader
        <3>2. m \in AppendEntriesRpc /\ i \in Node
            BY <1>1, <3>1, RpcTypes DEF TypeOK
        <3>3. PICK prev \in Nat : prev = m.prevLogIndex /\ m.entries \in Seq(Entry)
            BY <3>2 DEF AppendEntriesRpc
        <3>4. prev + 1 \in 1 .. Len(log[i])
            <4>1. PICK last \in Nat : last = LastLogIndex(i) /\ last = Len(log[i]) - 1
                BY <1>1, <1>4, <3>2 DEF LastLogIndex
            <4> QED BY <1>1, <1>4, <3>1, <3>2, <3>3, <4>1
        <3>5. NewLog(m, i) = SubSeq(log[i], 1, prev + 1) \o m.entries
            <4>1. m.prevLogIndex + 1 - lastIncludedIndex[i] = prev + 1
                BY <1>1, <3>2, <3>3
            <4> QED BY <4>1 DEF NewLog
        <3>6. PICK front : front = SubSeq(log[i], 1, prev + 1)
            OBVIOUS
        <3>7. /\ front \in Seq(Entry) /\ Len(front) = prev + 1 /\ front[1] = log[i][1]
            BY <1>4, <3>2, <3>4, <3>6, SubSeqType, SubSeqProperties
        <3>8. front \o m.entries \in Seq(Entry) /\ (front \o m.entries)[1] = front[1]
            BY <3>3, <3>7, ConcatProperties
        <3> QED BY <1>3, <3>1, <3>2, <3>5, <3>6, <3>7, <3>8
    <2> QED BY <2>1, <2>2
<1>7. CASE UNCHANGED vars
    BY <1>2, <1>7 DEF vars, persistentVars, LogStill
<1> QED BY <1>5, <1>6, <1>7 DEF Moves

LEMMA NoSnapshotsKept ==
    ASSUME StorageSurvives, ~Compaction, ElectionInv, TypeOK', NoSnapshots, LogsTraced,
           RpcsTraced, Moves
    PROVE  NoSnapshots'
<1>1. TypeOK /\ LogChainsAre /\ LogChainsAre'
    <2>1. (TypeOK => LogChainsAre)'
        BY LogChains, PTL
    <2> QED BY <2>1, LogChains DEF ElectionInv
<1>2. ASSUME NEW i \in Node
      PROVE  lastIncludedIndex'[i] = 0 /\ lastIncludedTerm'[i] = 0
    <2>1. PICK c : c = LogChain(i)
        OBVIOUS
    <2>2. /\ IsChain(c) /\ c.base = 0 /\ c.base <= c.last /\ c.at[0].term = 0
        BY <1>1, <2>1 DEF LogChainsAre, LogChainIs, NoSnapshots
    <2>3. PICK new : new = LogChain(i)'
        OBVIOUS
    <2>4. /\ new.base = lastIncludedIndex'[i]
          /\ new.at[lastIncludedIndex'[i]].term = lastIncludedTerm'[i]
          /\ new.base <= new.last /\ new.base \in Int /\ new.last \in Int
        BY <1>1, <2>3 DEF LogChainsAre, LogChainIs, IsChain
    <2>5. 0 \in Span(c)
        BY <2>2 DEF Span, IsChain
    <2>6. new = c \/ (\E x : ExtensionOf(new, c, x)) \/ (\E m \in Calls : JoinOf(new, c, CallChain(m)))
        BY <2>1, <2>3 DEF LogsTraced, Grows, Accepts
    <2>7. new.base = 0 /\ new.at[0].term = 0
        <3>1. ASSUME NEW m \in Calls, JoinOf(new, c, CallChain(m)) PROVE new.base = 0 /\ new.at[0].term = 0
            <4>1. new.base = 0 /\ 0 \in Span(new)
                BY <2>2, <2>4, <3>1 DEF JoinOf, Span
            <4>2. 0 <= CallChain(m).base
                BY <2>2, <3>1 DEF JoinOf, Span, IsChain
            <4> QED BY <2>2, <3>1, <4>1, <4>2 DEF JoinOf
        <3> QED BY <2>2, <2>5, <2>6, <3>1 DEF ExtensionOf
    <2> QED BY <2>4, <2>7
<1>3. \A m \in rpcs' : m.type \notin {"InstallSnapshot", "SnapshotMsg", "InstallSnapshotReply"}
    <2>1. \A m \in rpcs : m.type \notin {"InstallSnapshot", "SnapshotMsg", "InstallSnapshotReply"}
        BY DEF NoSnapshots
    <2>2. ASSUME NEW m \in rpcs'
          PROVE  \/ \E k \in rpcs : k.type = m.type
                 \/ m.type \in {"RequestVote", "AppendEntries", "RequestVoteReply", "AppendEntriesReply"}
        <3>1. CASE \E i \in Node : rpcs' = AfterCrash(i)
            BY <1>1, <3>1, CrashedCall
        <3>2. CASE \E i \in Node : \E new : Issues(i, new)
            BY <3>2 DEF Issues, Send
        <3>3. CASE \E k \in rpcs : \E r : Answers(k, r)
            BY <3>3 DEF Answers
        <3> QED BY <3>1, <3>2, <3>3 DEF RpcsTraced
    <2> QED BY <2>1, <2>2
<1> QED BY <1>1, <1>2, <1>3, FirstsMove, DisksMove DEF NoSnapshots

-----------------------------------------------------------------------------
(* What the proofs about a step start from. *)

MovesTraced ==
    LogsTraced /\ CallsMade /\ MessagesTraced /\ LeadersTraced /\ CommitsTraced /\ AppliedTraced

Stepped ==
    /\ ElectionInv /\ MatchingParts /\ Bookkeeping
    /\ ElectionInv' /\ MatchingParts'
    /\ StorageSurvives /\ [Next]_vars /\ VoteKept /\ Traced
    /\ MovesTraced

LEMMA StepIs ==
    ASSUME OrderlyNetwork, MatchingInv, Bookkeeping, [Next]_vars
    PROVE  Stepped /\ NoSnapshots' /\ \A m, n \in rpcs' : m.from = n.from /\ m.to = n.to => m = n
<1>1. ElectionInv /\ MatchingParts /\ StorageSurvives /\ ~Compaction /\ ~LateReplies
      /\ MaxOutstanding = 1 /\ Cardinality(Node) % 2 = 1
    BY DEF MatchingInv, MatchingParts, OrderlyNetwork
<1>2. ElectionInv' /\ MatchingParts'
    <2>1. MatchingInv'
        BY <1>1, MatchingStep
    <2> QED BY <2>1 DEF MatchingInv, MatchingParts
<1>3. VoteKept /\ Traced /\ TypeOK /\ TypeOK'
    BY <1>1, <1>2, InvStep, StepTraced DEF ElectionInv
<1>4. NoSnapshots /\ FollowersWithin /\ OneCall
    BY DEF Bookkeeping
<1>5. Moves
    BY <1>3, <1>4, StepMoves
<1>6. LogsTraced /\ CallsMade
    BY <1>1, <1>3, <1>4, <1>5, LogsMove
<1>7. MessagesTraced /\ LeadersTraced /\ CommitsTraced /\ AppliedTraced /\ RpcsTraced
    BY <1>1, <1>3, <1>4, <1>5, MessagesMove, LeadersMove, CommitsMove, RpcsMove
<1>8. NoSnapshots'
    BY <1>1, <1>3, <1>4, <1>5, <1>6, <1>7, NoSnapshotsKept
<1>9. \A m, n \in rpcs' : m.from = n.from /\ m.to = n.to => m = n
    BY <1>1, <1>3, <1>4, <1>7, OneCallKept
<1> QED BY <1>1, <1>2, <1>3, <1>6, <1>7, <1>8, <1>9 DEF Stepped, MovesTraced

TermsRise ==
    \A i \in Node : currentTerm[i] \in Nat /\ currentTerm'[i] \in Nat /\ currentTerm[i] <= currentTerm'[i]

LEMMA StepTypes ==
    ASSUME Stepped
    PROVE  /\ TypeOK /\ TypeOK' /\ TermsRise
           /\ ChainsTyped /\ ChainsTyped' /\ LogChainsAre /\ LogChainsAre' /\ StartsAre
           /\ LastIndexNat /\ LastIndexNat'
<1>1. TypeOK /\ TypeOK' /\ VoteKept /\ NoSnapshots
    BY DEF Stepped, ElectionInv, Bookkeeping
<1>2. TermsRise
    BY <1>1 DEF TermsRise, TypeOK, VoteKept
<1>3. (TypeOK => ChainsTyped)' /\ (TypeOK => LogChainsAre)' /\ (TypeOK => LastIndexNat)'
    BY ChainTypes, LogChains, LastIndexType, PTL
<1> QED BY <1>1, <1>2, <1>3, ChainTypes, LogChains, LastIndexType, Starts

LEMMA LogInChains ==
    ASSUME LogChainsAre, NEW i \in Node
    PROVE  LogChain(i) \in Chains /\ IsChain(LogChain(i)) /\ LogChain(i).last = LastLogIndex(i)
BY DEF LogChainsAre, LogChainIs

\* The log of a node that leads or campaigns is as before, or has grown.
Longer(i) == LogChain(i)' = LogChain(i) \/ Grows(i)

LEMMA CampaignersGrow ==
    ASSUME Stepped, NEW i \in Node, state'[i] # "Follower"
    PROVE  Longer(i) /\ (state'[i] = "Candidate" => LogChain(i)' = LogChain(i))
BY DEF Stepped, MovesTraced, LogsTraced, Grows, Accepts, Longer

LEMMA NewLeaderLog ==
    ASSUME NEW i \in Node, NewlyLeads(i)
    PROVE  LogChain(i)' = LogChain(i) /\ LastLogIndex(i)' = LastLogIndex(i)
BY DEF NewlyLeads, LogStill, LogChain, LastLogIndex, EntryAt

LEMMA LongerLast ==
    ASSUME Stepped, NEW i \in Node, Longer(i)
    PROVE  /\ LastLogIndex(i) <= LastLogIndex(i)'
           /\ LogChain(i)' = LogChain(i) => LastLogIndex(i)' = LastLogIndex(i)
           /\ Grows(i) => LastLogIndex(i)' = LastLogIndex(i) + 1
<1>1. LogChainsAre /\ LogChainsAre' /\ LastIndexNat
    BY StepTypes
<1>2. LogChain(i).last = LastLogIndex(i) /\ LogChain(i)'.last = LastLogIndex(i)'
    BY <1>1 DEF LogChainsAre, LogChainIs
<1>3. LastLogIndex(i) \in Nat
    BY <1>1 DEF LastIndexNat
<1>4. Grows(i) => LogChain(i)'.last = LogChain(i).last + 1
    BY DEF Grows, ExtensionOf
<1> QED BY <1>2, <1>3, <1>4 DEF Longer

\* A leader of a term that somebody has led is the leader it was.
LEMMA OldLeader ==
    ASSUME Stepped, NEW i \in Node, state'[i] = "Leader",
           NEW k \in Node, Led(k, currentTerm'[i])
    PROVE  /\ state[i] = "Leader" /\ currentTerm'[i] = currentTerm[i] /\ k = i
           /\ StillLeads(i) /\ Longer(i)
<1>1. state[i] = "Leader" /\ currentTerm'[i] = currentTerm[i]
    BY NewLeader DEF Stepped
<1>2. k = i
    <2>1. Led(k, currentTerm[i])
        BY <1>1
    <2> QED BY <1>1, <2>1, OneLed DEF OneLeads, Stepped
<1> QED BY <1>1, <1>2, CampaignersGrow DEF Stepped, MovesTraced, LeadersTraced, NewlyLeads

\* The leader that makes or has made the call m.
LEMMA CallLed ==
    ASSUME Stepped, NEW m \in Calls
    PROVE  /\ m.from \in Node /\ m.to \in Node /\ m.from # m.to /\ m.term \in Nat
           /\ Led(m.from, m.term)
<1>1. m \in rpcs /\ m.type = "AppendEntries" /\ m.from \in Node /\ m.to \in Node /\ m.term \in Nat
    BY StepTypes, CallTypes DEF Calls
<1> QED BY <1>1 DEF Stepped, MatchingParts, CallsLed

-----------------------------------------------------------------------------
(* What the environment gives is kept. *)

LEMMA CallersKept ==
    ASSUME Stepped
    PROVE  \A m, n \in Calls' : m.term = n.term => m.from = n.from
<1>1. \A m, n \in Calls : m.term = n.term => m.from = n.from
    BY DEF Stepped, Bookkeeping, OneCall
<1>2. ASSUME NEW m, NEW i \in Node, Sends(i, m), NEW k \in Calls, k.term = m.term
      PROVE  k.from = i
    <2>1. state[i] = "Leader" /\ m.term = currentTerm[i]
        BY <1>2 DEF Sends
    <2>2. k.from \in Node /\ Led(k.from, currentTerm[i])
        BY <1>2, <2>1, CallLed
    <2> QED BY <2>1, <2>2, OneLed DEF OneLeads, Stepped
<1>3. ASSUME NEW m, NEW i \in Node, Sends(i, m), NEW n, NEW k \in Node, Sends(k, n), m.term = n.term
      PROVE  i = k
    <2>1. ElectionSafety
        BY InvImpliesSafety DEF Stepped
    <2> QED BY <1>3, <2>1 DEF ElectionSafety, Sends
<1> SUFFICES ASSUME NEW m \in Calls', NEW n \in Calls', m.term = n.term
             PROVE  m.from = n.from
    OBVIOUS
<1>4. (\E k \in Calls : SameCall(k, m)) \/ (\E i \in Node : Sends(i, m))
    BY DEF Stepped, MovesTraced, CallsMade
<1>5. (\E k \in Calls : SameCall(k, n)) \/ (\E i \in Node : Sends(i, n))
    BY DEF Stepped, MovesTraced, CallsMade
<1>6. CASE \E k \in Calls : SameCall(k, m)
    <2>1. PICK k \in Calls : k.from = m.from /\ k.term = m.term
        BY <1>6 DEF SameCall
    <2>2. CASE \E l \in Calls : SameCall(l, n)
        BY <1>1, <2>1, <2>2 DEF SameCall
    <2>3. ASSUME NEW i \in Node, Sends(i, n) PROVE m.from = n.from
        BY <1>2, <2>1, <2>3 DEF Sends
    <2> QED BY <1>5, <2>2, <2>3
<1>7. ASSUME NEW i \in Node, Sends(i, m) PROVE m.from = n.from
    <2>1. ASSUME NEW l \in Calls, SameCall(l, n) PROVE m.from = n.from
        BY <1>2, <1>7, <2>1 DEF Sends, SameCall
    <2>2. ASSUME NEW k \in Node, Sends(k, n) PROVE m.from = n.from
        BY <1>3, <1>7, <2>2 DEF Sends
    <2> QED BY <1>5, <2>1, <2>2
<1> QED BY <1>4, <1>6, <1>7

LEMMA TermsAscendKept ==
    ASSUME Stepped
    PROVE  TermsAscend'
<1>1. TermsAscend /\ LogsTraced /\ CallsMade
    BY DEF Stepped, Bookkeeping, MovesTraced
<1>2. ChainsTyped /\ TermsRise /\ LogChainsAre /\ TypeOK
    BY StepTypes
<1>3. ASSUME NEW i \in Node PROVE Ascending(LogChain(i)') /\ UpTo(LogChain(i)', currentTerm'[i])
    <2>0. PICK t \in Nat, u \in Nat : t = currentTerm[i] /\ u = currentTerm'[i] /\ t <= u
        BY <1>2 DEF TermsRise
    <2>1. PICK c : c = LogChain(i) /\ t = currentTerm[i] /\ u = currentTerm'[i] /\ t <= u
        BY <2>0
    <2>2. Typed(c) /\ Ascending(c) /\ UpTo(c, t)
        BY <1>1, <1>2, <2>1, LogInChains DEF ChainsTyped, TermsAscend
    <2>3. PICK new : new = LogChain(i)'
        OBVIOUS
    <2>4. CASE new = c
        <3>1. UpTo(c, u)
            BY <2>1, <2>2 DEF UpTo, Typed
        <3> QED BY <2>1, <2>2, <2>3, <2>4, <3>1
    <2>5. ASSUME NEW x, x.term = t, ExtensionOf(new, c, x), u = t
          PROVE  Ascending(new) /\ UpTo(new, u)
        <3>1. UpTo(c, x.term) /\ x.term \in Int
            BY <2>2, <2>5
        <3>2. Ascending(new) /\ UpTo(new, x.term)
            BY <2>2, <2>5, <3>1, ExtensionAscends
        <3> QED BY <2>5, <3>2
    <2>6. ASSUME NEW m \in Calls, JoinOf(new, c, CallChain(m)), u = m.term
          PROVE  Ascending(new) /\ UpTo(new, u)
        <3>1. /\ Typed(CallChain(m)) /\ Ascending(CallChain(m)) /\ UpTo(CallChain(m), u)
            BY <1>1, <1>2, <2>6, CallTypes DEF ChainsTyped, TermsAscend
        <3> QED BY <2>2, <2>6, <3>1, JoinAscends
    <2> QED BY <1>1, <2>1, <2>3, <2>4, <2>5, <2>6 DEF LogsTraced, Grows, Accepts
<1>4. ASSUME NEW m \in Calls' PROVE Ascending(CallChain(m)) /\ UpTo(CallChain(m), m.term)
    <2>1. CASE \E k \in Calls : SameCall(k, m)
        <3>1. PICK k \in Calls : CallChain(k) = CallChain(m) /\ k.term = m.term
            BY <2>1 DEF SameCall, Calls
        <3>2. Ascending(CallChain(k)) /\ UpTo(CallChain(k), k.term)
            BY <1>1, <1>2, CallTypes DEF TermsAscend
        <3> QED BY <3>1, <3>2
    <2>2. ASSUME NEW i \in Node, Sends(i, m) PROVE Ascending(CallChain(m)) /\ UpTo(CallChain(m), m.term)
        <3>1. IsChain(LogChain(i)) /\ Ascending(LogChain(i)) /\ UpTo(LogChain(i), currentTerm[i])
            BY <1>1, <1>2, LogInChains DEF TermsAscend
        <3> QED BY <2>2, <3>1, SuffixAscends DEF Sends
    <2> QED BY <1>1, <2>1, <2>2 DEF CallsMade
<1>5. \A m : CallChain(m)' = CallChain(m)
    BY DEF CallChain
<1> QED BY <1>3, <1>4, <1>5 DEF TermsAscend, Chains

LEMMA RequestsKept ==
    ASSUME Stepped, NoSnapshots'
    PROVE  RequestsAreCurrent'
<1>1. /\ RequestsAreCurrent /\ MessagesTraced /\ RolesTraced /\ TermsRise /\ TypeOK'
      /\ TypeOK
    BY StepTypes DEF Stepped, Bookkeeping, MovesTraced, Traced
<1>2. StartsAre /\ StartsAre'
    <2>1. (TypeOK /\ NoSnapshots => StartsAre)'
        BY Starts, PTL
    <2> QED BY <1>1, <2>1, StepTypes
<1>3. ASSUME NEW m \in rpcs'
      PROVE  /\ m.from \in Node
             /\ m.type \in {"RequestVote", "RequestVoteReply"} => m.term \in Nat
    BY <1>1, RpcTypes DEF TypeOK, RequestVoteRpc, RequestVoteReplyRpc
<1>4. ASSUME NEW m \in rpcs', m.type = "RequestVote"
      PROVE  m.term <= currentTerm'[m.from]
    <2>1. CASE \E k \in rpcs : SameRequest(k, m)
        <3>1. m.term <= currentTerm[m.from]
            BY <1>1, <1>4, <2>1 DEF SameRequest, RequestsAreCurrent
        <3> QED BY <1>1, <1>3, <1>4, <3>1 DEF TermsRise
    <2>2. CASE Asks(m)
        BY <1>1, <1>3, <2>2 DEF Asks, TermsRise
    <2> QED BY <1>1, <1>4, <2>1, <2>2 DEF MessagesTraced, MessageTraced
<1>5. ASSUME NEW m \in rpcs', m.type = "RequestVoteReply"
      PROVE  m.term <= currentTerm'[m.from]
    <2>1. \E k \in rpcs : k.type \in {"RequestVote", "RequestVoteReply"} /\ k.from = m.from /\ k.term = m.term
        BY <1>1, <1>5 DEF MessagesTraced, MessageTraced, Ballot
    <2>2. m.term <= currentTerm[m.from]
        BY <1>1, <2>1 DEF RequestsAreCurrent
    <2> QED BY <1>1, <1>3, <1>5, <2>2 DEF TermsRise
<1>6. ASSUME NEW m \in rpcs', m.type = "RequestVote", state'[m.from] = "Candidate",
             m.term = currentTerm'[m.from]
      PROVE  m.lastLogIndex = LastLogIndex(m.from)' /\ m.lastLogTerm = LastLogTerm(m.from)'
    <2>1. PICK i \in Node : i = m.from
        BY <1>3
    <2>2. LogChain(i)' = LogChain(i)
        BY <1>6, <2>1, CampaignersGrow
    <2>3. LastLogIndex(i)' = LastLogIndex(i) /\ LastLogTerm(i)' = LastLogTerm(i)
        BY <1>2, <2>1, <2>2 DEF StartsAre
    <2>4. CASE \E k \in rpcs : SameRequest(k, m)
        <3>1. PICK k \in rpcs : SameRequest(k, m)
            BY <2>4
        <3>2. k.type = "RequestVote" /\ k.from = i /\ k.term = currentTerm'[i]
            BY <1>6, <2>1, <3>1 DEF SameRequest
        <3>3. k.term <= currentTerm[i]
            BY <1>1, <3>2 DEF RequestsAreCurrent
        <3>4. k.term = currentTerm[i] /\ currentTerm'[i] = currentTerm[i]
            BY <1>1, <3>2, <3>3 DEF TermsRise
        <3>5. state[i] = "Candidate"
            <4>1. ~(currentTerm'[i] > currentTerm[i])
                BY <1>1, <3>4 DEF TermsRise
            <4> QED BY <1>1, <1>6, <2>1, <4>1 DEF RolesTraced
        <3>6. k.lastLogIndex = LastLogIndex(i) /\ k.lastLogTerm = LastLogTerm(i)
            BY <1>1, <3>2, <3>4, <3>5 DEF RequestsAreCurrent
        <3> QED BY <2>1, <2>3, <3>1, <3>6 DEF SameRequest
    <2>5. CASE Asks(m)
        BY <2>1, <2>3, <2>5 DEF Asks
    <2> QED BY <1>1, <1>6, <2>4, <2>5 DEF MessagesTraced, MessageTraced
<1> QED BY <1>4, <1>5, <1>6 DEF RequestsAreCurrent

\* A call follows an entry of its caller's log.
LEMMA CallBase ==
    ASSUME TypeOK, NEW m \in Calls
    PROVE  CallChain(m).base \in Nat /\ CallChain(m).last \in Nat
<1>1. m \in AppendEntriesRpc
    BY RpcTypes DEF Calls, TypeOK
<1>2. m.prevLogIndex \in Nat /\ Len(m.entries) \in Nat
    BY <1>1 DEF AppendEntriesRpc
<1> QED BY <1>2 DEF CallChain

\* A chain that is a piece of a leader's log still is when the log grows.
Within(c, d) ==
    /\ c.last <= d.last
    /\ \A n \in Span(c) : c.at[n].term = d.at[n].term
    /\ \A n \in Owned(c) : c.at[n] = d.at[n]

LEMMA CallWithin ==
    ASSUME CallsFromLog, NEW m \in Calls, OfLeader(m)
    PROVE  Within(CallChain(m), LogChain(m.from))
BY DEF CallsFromLog, Within

LEMMA CallsWithinKept ==
    ASSUME Stepped
    PROVE  CallsFromLog'
<1>1. CallsFromLog /\ CallsMade /\ LogChainsAre /\ ChainsTyped
    BY StepTypes DEF Stepped, Bookkeeping, MovesTraced
<1>2. \A m : CallChain(m)' = CallChain(m)
    BY DEF CallChain
<1>3. ASSUME NEW m \in Calls', state'[m.from] = "Leader", m.term = currentTerm'[m.from]
      PROVE  Within(CallChain(m), LogChain(m.from)')
    <2>1. ASSUME NEW k \in Calls, SameCall(k, m) PROVE Within(CallChain(m), LogChain(m.from)')
        <3>1. k.from = m.from /\ k.term = m.term /\ CallChain(k) = CallChain(m)
            BY <2>1 DEF SameCall, Calls
        <3>2. PICK i \in Node : i = m.from /\ Led(i, k.term)
            BY <3>1, CallLed
        <3>3. Led(i, currentTerm'[i])
            BY <1>3, <3>1, <3>2
        <3>4. state[i] = "Leader" /\ currentTerm'[i] = currentTerm[i] /\ Longer(i)
            BY <1>3, <3>2, <3>3, OldLeader
        <3>5. OfLeader(k)
            BY <1>3, <3>1, <3>2, <3>4 DEF OfLeader
        <3>6. PICK c : c = CallChain(m) /\ Within(c, LogChain(i)) /\ Typed(c)
            BY <1>1, <3>1, <3>2, <3>5, CallWithin, CallTypes, StepTypes DEF ChainsTyped
        <3>7. PICK d, new : d = LogChain(i) /\ new = LogChain(i)' /\ Typed(d)
            BY <1>1, LogInChains DEF ChainsTyped
        <3>8. new = d \/ \E x : ExtensionOf(new, d, x)
            BY <3>4, <3>7 DEF Longer, Grows
        <3>9. ASSUME NEW x, ExtensionOf(new, d, x) PROVE Within(c, new)
            <4>1. /\ \A n \in Span(c) : c.at[n].term = d.at[n].term
                  /\ \A n \in Owned(c) : c.at[n] = d.at[n]
                  /\ c.last <= d.last
                BY <3>6, <3>7 DEF Within
            <4>2. d.base = 0
                BY <3>7, StepTypes DEF StartsAre, FromStart
            <4>3. c.base >= 0
                <5>1. CallChain(k).base \in Nat
                    BY CallBase, StepTypes
                <5> QED BY <3>1, <3>6, <5>1
            <4>4. c.last <= new.last
                BY <3>6, <3>7, <3>9, <4>1 DEF ExtensionOf, Typed, IsChain
            <4>5. \A n \in Span(c) : n \in Span(d)
                BY <3>6, <3>7, <4>1, <4>2, <4>3 DEF Span, Typed, IsChain
            <4>6. \A n \in Owned(c) : n \in Owned(d)
                BY <3>6, <3>7, <4>1, <4>2, <4>3 DEF Owned, Typed, IsChain
            <4> QED BY <3>9, <4>1, <4>4, <4>5, <4>6 DEF Within, ExtensionOf
        <3> QED BY <3>2, <3>6, <3>7, <3>8, <3>9
    <2>2. ASSUME NEW i \in Node, Sends(i, m) PROVE Within(CallChain(m), LogChain(m.from)')
        <3>1. PICK c, d : /\ c = CallChain(m) /\ d = LogChain(i) /\ d = LogChain(m.from)'
                          /\ SuffixOf(c, d) /\ IsChain(d)
            BY <1>1, <2>2, LogInChains DEF Sends
        <3> QED BY <3>1 DEF SuffixOf, Within, IsChain
    <2> QED BY <1>1, <2>1, <2>2 DEF CallsMade
<1> QED BY <1>2, <1>3 DEF CallsFromLog, OfLeader, Within, Calls

\* A report that a leader uses is about entries it has.
LEMMA ReportWithin ==
    ASSUME Stepped, NEW i \in Node, state[i] = "Leader", NEW m \in rpcs,
           m.type = "AppendEntriesReply", m.from = i, Timely(m)
    PROVE  m.match \in Nat /\ m.match <= LastLogIndex(i)
<1>1. m.match \in Nat
    BY StepTypes, RpcTypes DEF TypeOK, AppendEntriesReplyRpc
<1>2. CASE m.term = currentTerm[i]
    BY <1>1, <1>2 DEF OfLeader, Stepped, Bookkeeping, FollowersWithin
<1>3. CASE LogTerm(i, m.match) \in 0 .. currentTerm[i] - 1
    <2>1. PICK last \in Nat : last = LastLogIndex(i)
        BY StepTypes DEF LastIndexNat
    <2>2. lastIncludedIndex[i] = 0
        BY DEF Stepped, Bookkeeping, NoSnapshots
    <2>3. LogTerm(i, m.match) # -1
        BY <1>3, StepTypes DEF TermsRise
    <2>4. m.match = 0 \/ m.match \in 0 + 1 .. last
        BY <2>1, <2>2, <2>3 DEF LogTerm, Held
    <2> QED BY <1>1, <2>1, <2>4
<1> QED BY <1>2, <1>3 DEF Timely

LEMMA BackoffWithin ==
    ASSUME NEW m, NEW i \in Node, NEW last \in Nat, m.conflictIndex \in Nat,
           m.conflictIndex <= last, nextIndex[i][m.to] \in 1 .. last + 1
    PROVE  Backoff(m, i) \in 1 .. last + 1
<1>1. PICK next \in 1 .. last + 1 : next = nextIndex[i][m.to]
    OBVIOUS
<1>2. PICK c \in Nat : c = m.conflictIndex /\ c <= last
    OBVIOUS
<1>3. Backoff(m, i) = IF c # 0 THEN c ELSE IF next > 2 THEN next - 1 ELSE 1
    BY <1>1, <1>2 DEF Backoff
<1> QED BY <1>1, <1>2, <1>3

LEMMA FollowersKept ==
    ASSUME Stepped
    PROVE  FollowersWithin'
<1>1. /\ FollowersWithin /\ MessagesTraced /\ LeadersTraced /\ CallsFromLog /\ TermsRise
      /\ TypeOK /\ TypeOK' /\ LastIndexNat /\ LastIndexNat' /\ LogChainsAre
    BY StepTypes DEF Stepped, Bookkeeping, MovesTraced
<1>2. ASSUME NEW i \in Node, NEW j \in Node, state'[i] = "Leader"
      PROVE  /\ matchIndex'[i][j] <= LastLogIndex(i)'
             /\ nextIndex'[i][j] \in 1 .. LastLogIndex(i)' + 1
    <2>1. PICK last \in Nat, new \in Nat : last = LastLogIndex(i) /\ new = LastLogIndex(i)'
        BY <1>1 DEF LastIndexNat
    <2>2. CASE NewlyLeads(i)
        <3>1. new = last
            BY <2>1, <2>2, NewLeaderLog
        <3> QED BY <2>1, <2>2, <3>1 DEF NewlyLeads
    <2>3. CASE StillLeads(i)
        <3>1. last <= new
            BY <1>2, <2>1, CampaignersGrow, LongerLast
        <3>2. state[i] = "Leader"
            BY <2>3 DEF StillLeads
        <3>3. /\ matchIndex[i][j] <= last /\ nextIndex[i][j] \in 1 .. last + 1 /\ matchIndex[i][j] \in Nat
            BY <1>1, <2>1, <3>2 DEF FollowersWithin, TypeOK
        <3>4. CASE matchIndex'[i][j] = matchIndex[i][j] /\ nextIndex'[i][j] = nextIndex[i][j]
            BY <2>1, <3>1, <3>3, <3>4
        <3>5. ASSUME NEW m \in rpcs, Reports(m, i, j), m.success,
                     matchIndex'[i][j] = m.match, nextIndex'[i][j] = m.match + 1
              PROVE  matchIndex'[i][j] <= new /\ nextIndex'[i][j] \in 1 .. new + 1
            <4>1. m.match \in Nat /\ m.match <= last
                BY <2>1, <3>2, <3>5, ReportWithin DEF Reports
            <4> QED BY <3>1, <3>5, <4>1
        <3>6. ASSUME NEW m \in rpcs, Reports(m, i, j), matchIndex'[i][j] = matchIndex[i][j],
                     nextIndex'[i][j] = Backoff(m, i)
              PROVE  matchIndex'[i][j] <= new /\ nextIndex'[i][j] \in 1 .. new + 1
            <4>1. m.match \in Nat /\ m.match <= last /\ m.to = j
                BY <2>1, <3>2, <3>6, ReportWithin DEF Reports
            <4>2. m.conflictIndex \in Nat /\ m.conflictIndex <= m.match
                BY <1>1, <3>6, RpcTypes DEF Reports, FollowersWithin, TypeOK, AppendEntriesReplyRpc
            <4>3. m.conflictIndex <= last
                BY <4>1, <4>2
            <4>4. Backoff(m, i) \in 1 .. last + 1
                BY <3>3, <4>1, <4>2, <4>3, BackoffWithin
            <4> QED BY <3>1, <3>3, <3>6, <4>4
        <3> QED BY <2>1, <2>3, <3>4, <3>5, <3>6 DEF StillLeads
    <2> QED BY <1>1, <1>2, <2>2, <2>3 DEF LeadersTraced
<1>3. ASSUME NEW m \in rpcs', m.type = "AppendEntriesReply"
      PROVE  /\ m.from # m.to
             /\ Led(m.from, m.term)'
             /\ m.conflictIndex <= m.match
             /\ OfLeader(m)' => m.match <= LastLogIndex(m.from)'
    <2>1. PICK i \in Node, t \in Nat : i = m.from /\ t = m.term /\ m.match \in Nat
        BY <1>1, <1>3, RpcTypes DEF TypeOK, AppendEntriesReplyRpc
    <2>2. /\ m.from # m.to /\ Led(i, t) /\ m.conflictIndex <= m.match
          /\ state[i] = "Leader" /\ t = currentTerm[i] => m.match <= LastLogIndex(i)
        <3>1. CASE m \in rpcs
            BY <1>1, <1>3, <2>1, <3>1 DEF FollowersWithin, OfLeader
        <3>2. CASE \E k \in rpcs : Answer(k, m)
            <4>1. PICK k \in Calls : /\ k.from = m.from /\ k.to = m.to /\ k.term = m.term
                                     /\ m.match = CallChain(k).last /\ m.conflictIndex <= m.match
                BY <3>2 DEF Answer
            <4>2. m.from # m.to /\ Led(i, t)
                BY <2>1, <4>1, CallLed
            <4>3. state[i] = "Leader" /\ t = currentTerm[i] => m.match <= LastLogIndex(i)
                <5> SUFFICES ASSUME state[i] = "Leader", t = currentTerm[i] PROVE m.match <= LastLogIndex(i)
                    OBVIOUS
                <5>1. OfLeader(k)
                    BY <2>1, <4>1 DEF OfLeader
                <5>2. Within(CallChain(k), LogChain(i))
                    BY <1>1, <2>1, <4>1, <5>1, CallWithin
                <5>3. LogChain(i).last = LastLogIndex(i)
                    BY <1>1, LogInChains
                <5> QED BY <4>1, <5>2, <5>3 DEF Within
            <4> QED BY <4>1, <4>2, <4>3
        <3> QED BY <1>1, <1>3, <3>1, <3>2 DEF MessagesTraced, MessageTraced
    <2>3. Led(i, t)'
        BY <1>1, <2>1, <2>2, LedKept DEF Stepped
    <2>4. state'[i] = "Leader" /\ t = currentTerm'[i] => m.match <= LastLogIndex(i)'
        <3> SUFFICES ASSUME state'[i] = "Leader", t = currentTerm'[i] PROVE m.match <= LastLogIndex(i)'
            OBVIOUS
        <3>1. Led(i, currentTerm'[i])
            BY <2>2
        <3>2. state[i] = "Leader" /\ t = currentTerm[i] /\ Longer(i)
            BY <3>1, OldLeader
        <3>3. PICK last \in Nat, new \in Nat : last = LastLogIndex(i) /\ new = LastLogIndex(i)'
            BY <1>1 DEF LastIndexNat
        <3>4. m.match <= last /\ last <= new
            BY <2>2, <3>2, <3>3, LongerLast
        <3> QED BY <2>1, <3>3, <3>4
    <2> QED BY <2>1, <2>2, <2>3, <2>4 DEF OfLeader
<1> QED BY <1>2, <1>3 DEF FollowersWithin

LEMMA BookkeepingKept ==
    ASSUME OrderlyNetwork, MatchingInv, Bookkeeping, [Next]_vars
    PROVE  Stepped /\ Bookkeeping'
<1>1. Stepped /\ NoSnapshots' /\ \A m, n \in rpcs' : m.from = n.from /\ m.to = n.to => m = n
    BY StepIs
<1>2. OneCall'
    BY <1>1, CallersKept DEF OneCall
<1> QED BY <1>1, <1>2, TermsAscendKept, RequestsKept, CallsWithinKept, FollowersKept DEF Bookkeeping

-----------------------------------------------------------------------------
(* An entry that lasts. *)

LEMMA HasType ==
    ASSUME Stepped, NEW i \in Node, NEW n, NEW e, Has(i, n, e)
    PROVE  /\ n \in Nat \ {0} /\ n \in Owned(LogChain(i)) /\ n \in Span(LogChain(i))
           /\ LogChain(i).at[n] = e /\ e \in Entry /\ e.term \in Nat
           /\ n <= LastLogIndex(i) /\ e.term <= currentTerm[i]
<1>1. PICK c : c = LogChain(i) /\ c \in Chains /\ IsChain(c) /\ c.base = 0 /\ c.last = LastLogIndex(i)
    BY StepTypes, LogInChains DEF StartsAre, FromStart
<1>2. n \in Owned(c) /\ c.at[n] = e
    BY <1>1 DEF Has, Holds
<1>3. n \in Span(c) /\ n \in Int /\ n >= 1 /\ n <= c.last
    BY <1>1, <1>2 DEF Owned, Span, IsChain
<1>4. e \in Entry
    BY <1>1, <1>2, StepTypes, ChainsAreChains
<1>5. UpTo(c, currentTerm[i])
    BY <1>1 DEF Stepped, Bookkeeping, TermsAscend
<1> QED BY <1>1, <1>2, <1>3, <1>4, <1>5 DEF Entry, UpTo

LEMMA LogIs ==
    ASSUME Stepped, NEW i \in Node
    PROVE  /\ LogChain(i) \in Chains /\ Typed(LogChain(i)) /\ IsChain(LogChain(i))
           /\ LogChain(i).base = 0 /\ FromStart(LogChain(i))
           /\ LogChain(i).last = LastLogIndex(i) /\ LastLogIndex(i) \in Nat
           /\ LogChain(i).at[0].term = 0
           /\ LogChain(i).at[LastLogIndex(i)].term = LastLogTerm(i)
           /\ Ascending(LogChain(i)) /\ UpTo(LogChain(i), currentTerm[i])
           /\ Owned(LogChain(i)) = 1 .. LastLogIndex(i)
           /\ Span(LogChain(i)) = 0 .. LastLogIndex(i)
<1>1. /\ LogChain(i) \in Chains /\ IsChain(LogChain(i)) /\ LogChain(i).last = LastLogIndex(i)
      /\ LastLogIndex(i) \in Nat /\ Typed(LogChain(i))
    BY StepTypes, LogInChains DEF ChainsTyped, LastIndexNat
<1>2. /\ FromStart(LogChain(i)) /\ LogChain(i).at[0].term = 0
      /\ LogChain(i).at[LastLogIndex(i)].term = LastLogTerm(i)
    BY StepTypes DEF StartsAre
<1>3. Ascending(LogChain(i)) /\ UpTo(LogChain(i), currentTerm[i])
    BY <1>1 DEF Stepped, Bookkeeping, TermsAscend
<1> QED BY <1>1, <1>2, <1>3 DEF FromStart, Owned, Span

LEMMA CallIs ==
    ASSUME Stepped, NEW m \in Calls
    PROVE  /\ CallChain(m) \in Chains /\ Typed(CallChain(m)) /\ IsChain(CallChain(m))
           /\ CallChain(m).base \in Nat /\ CallChain(m).last \in Nat
           /\ CallChain(m).base <= CallChain(m).last
           /\ Ascending(CallChain(m)) /\ UpTo(CallChain(m), m.term)
           /\ m \in rpcs /\ m.from \in Node /\ m.to \in Node /\ m.term \in Nat
           /\ m.leaderCommit \in Nat
<1>1. /\ CallChain(m) \in Chains /\ m \in rpcs /\ m.from \in Node /\ m.to \in Node
      /\ m.term \in Nat /\ m.leaderCommit \in Nat
      /\ CallChain(m).base \in Nat /\ CallChain(m).last \in Nat
    BY StepTypes, CallTypes, CallBase
<1>2. Typed(CallChain(m))
    BY <1>1, StepTypes DEF ChainsTyped
<1> QED BY <1>1, <1>2 DEF Typed, Stepped, Bookkeeping, TermsAscend

\* A log that is at least as up to date as one with e has e, too.
LEMMA UpToDateHas ==
    ASSUME Stepped, NEW i \in Node, NEW j \in Node, NEW n, NEW e,
           Has(j, n, e), Respects(LogChain(i), n, e),
           \/ LastLogTerm(i) > LastLogTerm(j)
           \/ LastLogTerm(i) = LastLogTerm(j) /\ LastLogIndex(i) >= LastLogIndex(j)
    PROVE  Has(i, n, e)
<1>1. PICK li \in Nat, lj \in Nat, ti \in Nat, tj \in Nat, t \in Nat :
          /\ li = LastLogIndex(i) /\ lj = LastLogIndex(j)
          /\ ti = LastLogTerm(i) /\ tj = LastLogTerm(j) /\ t = e.term
    BY HasType, StepTypes, EntryTypes
<1>2. n \in Nat \ {0} /\ n <= lj /\ t <= tj
    <2>1. n \in Nat \ {0} /\ n <= lj /\ n \in Span(LogChain(j)) /\ LogChain(j).at[n].term = t
        BY <1>1, HasType
    <2>2. lj \in Span(LogChain(j)) /\ LogChain(j).at[lj].term = tj
        BY <1>1, LogIs
    <2>3. t <= tj
        BY <2>1, <2>2, LogIs DEF Ascending
    <2> QED BY <2>1, <2>3
<1>3. LogChain(i).at[li].term = ti /\ LogChain(i).at[0].term = 0 /\ Owned(LogChain(i)) = 1 .. li
    BY <1>1, LogIs
<1>4. ti > tj \/ (ti = tj /\ li >= lj)
    BY <1>1
<1>5. li # 0
    BY <1>2, <1>3, <1>4
<1>6. li \in Owned(LogChain(i))
    BY <1>3, <1>5
<1>7. ti > t \/ (ti = t /\ li >= n)
    BY <1>2, <1>4
<1>8. li >= n /\ (n \in Owned(LogChain(i)) => LogChain(i).at[n] = e)
    BY <1>1, <1>3, <1>6, <1>7 DEF Respects
<1> QED BY <1>2, <1>3, <1>8 DEF Has, Holds

\* The log of a node that keeps e through a step.
LEMMA HasKept ==
    ASSUME Stepped, NEW j \in Node, NEW n, NEW e, Lasting(n, e), Has(j, n, e), NoCut(j, n, e)
    PROVE  Has(j, n, e)'
<1>1. PICK c, new : c = LogChain(j) /\ new = LogChain(j)' /\ IsChain(c) /\ Holds(c, n, e)
    BY LogIs DEF Has
<1>2. new = c \/ Grows(j) \/ \E m \in Calls : Accepts(j, m)
    BY <1>1 DEF Stepped, MovesTraced, LogsTraced
<1>3. CASE Grows(j)
    <2>1. \E x : ExtensionOf(new, c, x)
        BY <1>1, <1>3 DEF Grows
    <2> QED BY <1>1, <2>1, ExtensionHolds DEF Has
<1>4. ASSUME NEW m \in Calls, Accepts(j, m) PROVE Has(j, n, e)'
    <2>1. m.to = j /\ currentTerm[j] <= m.term /\ JoinOf(new, c, CallChain(m))
        BY <1>1, <1>4 DEF Accepts
    <2>2. e.term <= m.term /\ m.term \in Nat /\ e.term \in Nat
        BY <2>1, HasType, CallIs, StepTypes DEF TermsRise
    <2>3. Carries(CallChain(m), n, e)
        BY <2>1, <2>2 DEF Lasting, NoCut
    <2>4. Holds(new, n, e)
        BY <1>1, <2>1, <2>3, CallIs, JoinHolds
    <2> QED BY <1>1, <2>4 DEF Has
<1> QED BY <1>1, <1>2, <1>3, <1>4 DEF Has

LEMMA NoCutKept ==
    ASSUME Stepped, NEW j \in Node, NEW n, NEW e, Lasting(n, e), NoCut(j, n, e), e.term \in Nat
    PROVE  NoCut(j, n, e)'
<1>1. \A m : CallChain(m)' = CallChain(m)
    BY DEF CallChain
<1> SUFFICES ASSUME NEW m \in Calls', m.to = j, m.term = e.term, currentTerm'[j] <= m.term
             PROVE  Carries(CallChain(m), n, e)
    BY <1>1 DEF NoCut, Carries, Owned
<1>2. ASSUME NEW k \in Calls, SameCall(k, m) PROVE Carries(CallChain(m), n, e)
    <2>1. k.to = j /\ k.term = e.term /\ CallChain(k) = CallChain(m)
        BY <1>2 DEF SameCall, Calls
    <2>2. currentTerm[j] <= k.term
        BY <2>1, StepTypes DEF TermsRise
    <2> QED BY <2>1, <2>2 DEF NoCut
<1>3. ASSUME NEW i \in Node, Sends(i, m) PROVE Carries(CallChain(m), n, e)
    <2>1. Has(i, n, e)
        BY <1>3 DEF Sends, Lasting
    <2> QED BY <1>3, <2>1, LogIs, SuffixCarries DEF Has, Sends
<1> QED BY <1>2, <1>3 DEF Stepped, MovesTraced, CallsMade

\* Grants on their way are of the term their candidate is in, or of an earlier one.
LEMMA GrantCurrent ==
    ASSUME Stepped, NEW m \in rpcs, Grant(m), NEW i \in Node, m.from = i, m.term = currentTerm'[i]
    PROVE  currentTerm'[i] = currentTerm[i] /\ VotedFor(m.to, i)
<1>1. m.term <= currentTerm[i]
    BY DEF Grant, Stepped, Bookkeeping, RequestsAreCurrent
<1>2. currentTerm'[i] = currentTerm[i]
    BY <1>1, StepTypes DEF TermsRise
<1> QED BY <1>2 DEF VotedFor

\* A candidate's votes were there, or a voter has just compared logs.
LEMMA VotesFrom ==
    ASSUME Stepped, NEW i \in Node, NEW j \in Node, state'[i] = "Candidate", VotedFor(j, i)'
    PROVE  \/ j = i
           \/ /\ state[i] = "Candidate" /\ currentTerm'[i] = currentTerm[i]
              /\ \/ VotedFor(j, i)
                 \/ LastLogTerm(i) > LastLogTerm(j)
                 \/ LastLogTerm(i) = LastLogTerm(j) /\ LastLogIndex(i) >= LastLogIndex(j)
<1>1. Traced /\ MessagesTraced /\ RequestsAreCurrent
    BY DEF Stepped, MovesTraced, Bookkeeping
<1>2. currentTerm'[i] = currentTerm[i] => state[i] = "Candidate"
    <2>1. currentTerm[i] \in Nat
        BY StepTypes DEF TermsRise
    <2> QED BY <1>1, <2>1 DEF Traced, RolesTraced
<1>3. ASSUME NEW m \in rpcs, Grant(m), m.to = j, m.from = i, m.term = currentTerm'[i]
      PROVE  currentTerm'[i] = currentTerm[i] /\ VotedFor(j, i)
    BY <1>3, GrantCurrent
<1>4. CASE j \in votes'[i]
    <2>1. Campaigning(i)'
        BY DEF Campaigning
    <2>2. \/ Campaigning(i) /\ currentTerm'[i] = currentTerm[i] /\ j \in votes[i]
          \/ j = i
          \/ \E m \in rpcs : Grant(m) /\ m.to = j /\ m.from = i /\ m.term = currentTerm'[i]
        BY <1>1, <1>4, <2>1 DEF Traced, VotesTraced
    <2> QED BY <1>2, <1>3, <2>2 DEF VotedFor
<1>5. ASSUME NEW m \in rpcs', Grant(m), m.to = j, m.from = i, m.term = currentTerm'[i]
      PROVE  \/ /\ state[i] = "Candidate" /\ currentTerm'[i] = currentTerm[i]
                /\ \/ VotedFor(j, i)
                   \/ LastLogTerm(i) > LastLogTerm(j)
                   \/ LastLogTerm(i) = LastLogTerm(j) /\ LastLogIndex(i) >= LastLogIndex(j)
    <2>1. CASE m \in rpcs
        BY <1>2, <1>3, <1>5, <2>1
    <2>2. ASSUME NEW k \in rpcs, Ballot(k, m)
          PROVE  /\ state[i] = "Candidate" /\ currentTerm'[i] = currentTerm[i]
                 /\ \/ LastLogTerm(i) > LastLogTerm(j)
                    \/ LastLogTerm(i) = LastLogTerm(j) /\ LastLogIndex(i) >= LastLogIndex(j)
        <3>1. k.type = "RequestVote" /\ k.from = i /\ k.term = currentTerm'[i] /\ UpToDate(k, j)
            BY <1>5, <2>2 DEF Ballot
        <3>2. currentTerm'[i] = currentTerm[i]
            <4>1. k.term <= currentTerm[i]
                BY <1>1, <3>1 DEF RequestsAreCurrent
            <4> QED BY <3>1, <4>1, StepTypes DEF TermsRise
        <3>3. state[i] = "Candidate"
            BY <1>2, <3>2
        <3>4. k.lastLogIndex = LastLogIndex(i) /\ k.lastLogTerm = LastLogTerm(i)
            BY <1>1, <3>1, <3>2, <3>3 DEF RequestsAreCurrent
        <3> QED BY <3>1, <3>2, <3>3, <3>4 DEF UpToDate
    <2>3. m \in rpcs \/ \E k \in rpcs : Ballot(k, m)
        BY <1>1, <1>5 DEF MessagesTraced, MessageTraced, Grant
    <2> QED BY <2>1, <2>2, <2>3
<1> QED BY <1>4, <1>5 DEF VotedFor, Grant

LEMMA KeepsKept ==
    ASSUME Stepped, NEW j \in Node, NEW n, NEW e, Lasting(n, e), Keeps(j, n, e)
    PROVE  Keeps(j, n, e)'
<1>1. Has(j, n, e) /\ NoCut(j, n, e) /\ e.term \in Nat
    BY HasType DEF Keeps
<1>2. ASSUME NEW i \in Node, state'[i] = "Candidate", currentTerm'[i] > e.term, VotedFor(j, i)'
      PROVE  Has(i, n, e)'
    <2>1. Has(i, n, e)
        <3>1. CASE j = i
            BY <1>1, <3>1
        <3>2. CASE state[i] = "Candidate" /\ currentTerm'[i] = currentTerm[i] /\ VotedFor(j, i)
            BY <1>2, <3>2 DEF Keeps
        <3>3. CASE \/ LastLogTerm(i) > LastLogTerm(j)
                   \/ LastLogTerm(i) = LastLogTerm(j) /\ LastLogIndex(i) >= LastLogIndex(j)
            <4>1. Respects(LogChain(i), n, e)
                BY LogIs DEF Lasting
            <4> QED BY <1>1, <3>3, <4>1, UpToDateHas
        <3> QED BY <1>2, <3>1, <3>2, <3>3, VotesFrom
    <2>2. LogChain(i)' = LogChain(i)
        BY <1>2, CampaignersGrow
    <2> QED BY <2>1, <2>2 DEF Has
<1> QED BY <1>1, <1>2, HasKept, NoCutKept DEF Keeps

\* Nobody is elected in a later term without the vote of a node that keeps e.
Backed(n, e) ==
    \E k \in Node : \E Q \in SUBSET Node :
        /\ Led(k, e.term)
        /\ IsMajority(Q)
        /\ \A j \in Q : Keeps(j, n, e) \/ (currentTerm[j] <= e.term /\ Keeps(k, n, e))

LEMMA ElectedHas ==
    ASSUME Stepped, NEW i \in Node, NEW n, NEW e, e.term \in Nat, Lasting(n, e), Backed(n, e),
           state'[i] = "Leader", NewlyLeads(i), currentTerm'[i] >= e.term
    PROVE  Has(i, n, e)
<1>1. PICK k \in Node, Q \in SUBSET Node :
          /\ Led(k, e.term)
          /\ IsMajority(Q)
          /\ \A j \in Q : Keeps(j, n, e) \/ (currentTerm[j] <= e.term /\ Keeps(k, n, e))
    BY DEF Backed
<1>2. state[i] # "Leader" /\ Traced /\ TermsRise /\ ElectionInv
    BY StepTypes DEF Stepped, NewlyLeads
<1>3. currentTerm'[i] > e.term
    <2>1. currentTerm'[i] # e.term
        BY <1>1, <1>2, OldLeader
    <2> QED BY <1>2, <2>1 DEF TermsRise
<1>4. votes'[i] \in SUBSET Node /\ IsMajority(votes'[i]) /\ Campaigning(i)'
    BY StepTypes DEF Stepped, ElectionInv, LeadersElected, Campaigning, TypeOK, IsMajority
<1>5. \A j \in votes'[i] :
          \/ Campaigning(i) /\ currentTerm'[i] = currentTerm[i] /\ j \in votes[i]
          \/ j = i /\ currentTerm'[i] > currentTerm[i]
          \/ \E m \in rpcs : Grant(m) /\ m.to = j /\ m.from = i /\ m.term = currentTerm'[i]
    BY <1>2, <1>4 DEF Traced, VotesTraced
<1>6. CASE currentTerm'[i] = currentTerm[i]
    <2>1. state[i] = "Candidate"
        <3>1. ~(currentTerm'[i] > currentTerm[i])
            BY <1>2, <1>6 DEF TermsRise
        <3> QED BY <1>2, <3>1 DEF Traced, RolesTraced
    <2>2. PICK j \in Node : j \in Q /\ j \in votes'[i]
        BY <1>1, <1>4, MajoritiesMeet
    <2>3. VotedFor(j, i) /\ Remembers(j, i, currentTerm[i])
        <3>1. ~(currentTerm'[i] > currentTerm[i])
            BY <1>2, <1>6 DEF TermsRise
        <3>2. CASE j \in votes[i]
            BY <1>2, <2>1, <3>2 DEF VotedFor, ElectionInv, GrantsRemembered, Campaigning
        <3>3. ASSUME NEW m \in rpcs, Grant(m), m.to = j, m.from = i, m.term = currentTerm'[i]
              PROVE  VotedFor(j, i) /\ Remembers(j, i, currentTerm[i])
            BY <1>2, <1>6, <3>3 DEF VotedFor, ElectionInv, GrantsRemembered
        <3> QED BY <1>5, <2>2, <3>1, <3>2, <3>3
    <2>4. ~(currentTerm[j] <= e.term)
        BY <1>2, <1>3, <1>6, <2>3 DEF Remembers, TermsRise
    <2>5. Keeps(j, n, e)
        BY <1>1, <2>2, <2>4
    <2> QED BY <1>3, <1>6, <2>1, <2>3, <2>5 DEF Keeps
<1>7. CASE currentTerm'[i] # currentTerm[i]
    <2>1. \A j \in votes'[i] : j = i
        BY <1>5, <1>7, GrantCurrent
    <2>2. IsMajority({i})
        <3>1. {i} \in SUBSET Node /\ votes'[i] \subseteq {i}
            BY <2>1
        <3> QED BY <1>4, <3>1, MajoritySuperset
    <2>3. Node = {i}
        BY <2>2, MajorityOfOne
    <2>4. PICK j \in Node : j \in Q
        BY <1>1, MajorityMember
    <2>5. j = i /\ k = i
        BY <2>3
    <2> QED BY <1>1, <2>4, <2>5 DEF Keeps
<1> QED BY <1>6, <1>7

LEMMA LastingKept ==
    ASSUME Stepped, NEW n \in Nat \ {0}, NEW e, e.term \in Nat, Lasting(n, e), Backed(n, e)
    PROVE  Lasting(n, e)'
<1>1. LogsTraced /\ CallsMade /\ LeadersTraced
    BY DEF Stepped, MovesTraced
<1>2. \A m : CallChain(m)' = CallChain(m)
    BY DEF CallChain
<1>3. ASSUME NEW i \in Node, state'[i] = "Leader", currentTerm'[i] >= e.term
      PROVE  Has(i, n, e)'
    <2>1. CASE NewlyLeads(i)
        BY <1>3, <2>1, ElectedHas, NewLeaderLog DEF Has
    <2>2. CASE StillLeads(i)
        <3>1. PICK c, new : c = LogChain(i) /\ new = LogChain(i)' /\ IsChain(c)
            BY LogIs
        <3>2. Holds(c, n, e)
            BY <1>3, <2>2, <3>1 DEF StillLeads, Lasting, Has
        <3>3. new = c \/ \E x : ExtensionOf(new, c, x)
            BY <1>3, <3>1, CampaignersGrow DEF Longer, Grows
        <3>4. Holds(new, n, e)
            BY <3>1, <3>2, <3>3, ExtensionHolds
        <3> QED BY <3>1, <3>4 DEF Has
    <2> QED BY <1>1, <1>3, <2>1, <2>2 DEF LeadersTraced
<1>4. ASSUME NEW i \in Node PROVE Respects(LogChain(i)', n, e)
    <2>1. PICK c, new : c = LogChain(i) /\ new = LogChain(i)' /\ Typed(c) /\ IsChain(c) /\ FromStart(c)
        BY LogIs
    <2>2. Respects(c, n, e)
        BY <2>1, LogIs DEF Lasting
    <2>3. CASE Grows(i)
        <3>1. PICK x : x.term = currentTerm[i] /\ ExtensionOf(new, c, x)
            BY <2>1, <2>3 DEF Grows
        <3>2. x.term >= e.term => Holds(c, n, e)
            BY <2>1, <2>3, <3>1 DEF Grows, Lasting, Has
        <3>3. x.term \in Int
            BY <3>1, StepTypes DEF TermsRise
        <3> QED BY <2>1, <2>2, <3>1, <3>2, <3>3, ExtensionRespects
    <2>4. ASSUME NEW m \in Calls, Accepts(i, m) PROVE Respects(new, n, e)
        <3>1. PICK d : d = CallChain(m) /\ Typed(d) /\ UpTo(d, m.term) /\ Respects(d, n, e)
            BY CallIs DEF Lasting
        <3>2. JoinOf(new, c, d)
            BY <2>1, <2>4, <3>1 DEF Accepts
        <3>3. m.term >= e.term /\ n <= d.base => d.at[d.base].term >= e.term
            BY <3>1 DEF Lasting
        <3>4. m.term \in Int
            BY CallIs
        <3> QED BY <2>1, <2>2, <3>1, <3>2, <3>3, <3>4, JoinRespects
    <2> QED BY <1>1, <2>1, <2>2, <2>3, <2>4 DEF LogsTraced
<1>5. ASSUME NEW m \in Calls'
      PROVE  /\ Respects(CallChain(m), n, e)
             /\ m.term > e.term => Carries(CallChain(m), n, e)
             /\ m.term >= e.term /\ n <= CallChain(m).base =>
                    CallChain(m).at[CallChain(m).base].term >= e.term
    <2>1. ASSUME NEW k \in Calls, SameCall(k, m)
          PROVE  /\ Respects(CallChain(m), n, e)
                 /\ m.term > e.term => Carries(CallChain(m), n, e)
                 /\ m.term >= e.term /\ n <= CallChain(m).base =>
                        CallChain(m).at[CallChain(m).base].term >= e.term
        <3>1. k.term = m.term /\ CallChain(k) = CallChain(m)
            BY <2>1 DEF SameCall, Calls
        <3>2. Respects(CallChain(k), n, e)
            BY CallIs DEF Lasting
        <3> QED BY <3>1, <3>2 DEF Lasting
    <2>2. ASSUME NEW i \in Node, Sends(i, m)
          PROVE  /\ Respects(CallChain(m), n, e)
                 /\ m.term > e.term => Carries(CallChain(m), n, e)
                 /\ m.term >= e.term /\ n <= CallChain(m).base =>
                        CallChain(m).at[CallChain(m).base].term >= e.term
        <3>1. PICK c, d : c = CallChain(m) /\ d = LogChain(i) /\ IsChain(d) /\ SuffixOf(c, d)
            BY <2>2, LogIs DEF Sends
        <3>2. m.term = currentTerm[i] /\ state[i] = "Leader" /\ m.term \in Int
            BY <2>2, StepTypes DEF Sends, TermsRise
        <3>3. m.term >= e.term => Holds(d, n, e)
            BY <3>1, <3>2 DEF Lasting, Has
        <3>4. Respects(c, n, e)
            BY <3>1, LogIs, SuffixRespects DEF Lasting
        <3>5. m.term > e.term => Carries(c, n, e)
            BY <3>1, <3>2, <3>3, SuffixCarries
        <3>6. ASSUME m.term >= e.term, n <= c.base PROVE c.at[c.base].term >= e.term
            <4>1. n \in Span(d) /\ d.at[n].term = e.term
                <5>1. Has(i, n, e)
                    BY <3>1, <3>3, <3>6 DEF Has
                <5> QED BY <3>1, <5>1, HasType
            <4>2. c.base \in Span(d) /\ c.at[c.base].term = d.at[c.base].term
                <5>1. c.base \in Span(c)
                    BY <3>1 DEF SuffixOf, IsChain, Span
                <5> QED BY <3>1, <5>1 DEF SuffixOf
            <4>3. Ascending(d)
                BY <3>1, LogIs
            <4>4. d.at[n].term <= d.at[c.base].term /\ d.at[c.base].term \in Int
                BY <3>1, <3>6, <4>1, <4>2, <4>3, LogIs DEF Ascending, Typed
            <4> QED BY <4>1, <4>2, <4>4
        <3> QED BY <3>1, <3>4, <3>5, <3>6
    <2> QED BY <1>1, <2>1, <2>2 DEF CallsMade
<1>6. ASSUME NEW c \in Chains' PROVE Respects(c, n, e)
    <2>1. (\E i \in Node : c = LogChain(i)') \/ (\E m \in Calls' : c = CallChain(m))
        BY <1>2 DEF Chains
    <2> QED BY <1>4, <1>5, <2>1
<1>7. \A c : Respects(c, n, e)' = Respects(c, n, e) /\ Carries(c, n, e)' = Carries(c, n, e)
    BY DEF Respects, Carries, Owned
<1> QED BY <1>2, <1>3, <1>5, <1>6, <1>7 DEF Lasting, Respects, Carries, Owned

LEMMA SecureKept ==
    ASSUME Stepped, NEW n, NEW e, Secure(n, e)
    PROVE  Secure(n, e)'
<1>1. PICK Q \in SUBSET Node : IsMajority(Q) /\ \A j \in Q : Keeps(j, n, e)
    BY DEF Secure, KeptByMajority
<1>2. PICK j \in Node : j \in Q /\ Has(j, n, e)
    BY <1>1, MajorityMember DEF Keeps
<1>3. n \in Nat \ {0} /\ e.term \in Nat
    BY <1>2, HasType
<1>4. \E k \in Node : Led(k, e.term)
    BY <1>2, HasType, LogIs DEF Stepped, MatchingParts, EntriesLed
<1>5. Backed(n, e)
    BY <1>1, <1>4 DEF Backed
<1>6. Lasting(n, e) /\ Lasting(n, e)'
    BY <1>3, <1>5, LastingKept DEF Secure
<1>7. \A k \in Q : Keeps(k, n, e)'
    BY <1>1, <1>6, KeepsKept
<1> QED BY <1>1, <1>6, <1>7 DEF Secure, KeptByMajority, IsMajority

-----------------------------------------------------------------------------
(* Acknowledged entries. *)

\* A follower has just joined the call k of the leader i to its log.
JustJoined(i, j, n) ==
    \E k \in Calls : /\ k.from = i /\ k.to = j /\ k.term = currentTerm[i]
                     /\ Accepts(j, k) /\ n <= CallChain(k).last

\* An acknowledgement of an entry of the leader's term was there, or is new.
LEMMA AckFrom ==
    ASSUME Stepped, NEW i \in Node, state'[i] = "Leader", StillLeads(i), NEW j \in Node,
           NEW n \in Nat, Acked(i, j, n)', n > LastLogIndex(i) \/ LogChain(i).at[n].term = currentTerm[i]
    PROVE  \/ j = i
           \/ n <= LastLogIndex(i) /\ Acked(i, j, n)
           \/ n <= LastLogIndex(i) /\ JustJoined(i, j, n)
<1>1. state[i] = "Leader" /\ currentTerm'[i] = currentTerm[i] /\ FollowersWithin /\ MessagesTraced
    BY DEF StillLeads, Stepped, Bookkeeping, MovesTraced
<1>2. PICK last \in Nat, t \in Nat : last = LastLogIndex(i) /\ t = currentTerm[i]
    BY StepTypes DEF LastIndexNat, TermsRise
<1>3. /\ matchIndex[i][j] \in Nat /\ matchIndex[i][j] <= last
    BY <1>1, <1>2, StepTypes DEF FollowersWithin, TypeOK
<1>4. ASSUME matchIndex'[i][j] >= n PROVE n <= last /\ Acked(i, j, n)
    <2>1. CASE matchIndex'[i][j] = matchIndex[i][j]
        BY <1>3, <1>4, <2>1 DEF Acked
    <2>2. ASSUME NEW m \in rpcs, Reports(m, i, j), m.success, matchIndex'[i][j] = m.match
          PROVE  n <= last /\ Acked(i, j, n)
        <3>1. /\ m.type = "AppendEntriesReply" /\ m.from = i /\ m.to = j /\ Timely(m)
              /\ m.match \in Nat /\ m.match <= last
            BY <1>1, <1>2, <2>2, ReportWithin DEF Reports
        <3>2. n <= last /\ n <= m.match
            BY <1>4, <2>2, <3>1
        <3>3. CASE m.term = t
            BY <1>2, <2>2, <3>1, <3>2, <3>3 DEF Acked
        <3>4. CASE LogTerm(i, m.match) \in 0 .. t - 1
            <4>1. PICK p \in Nat : p = m.match /\ p <= last /\ n <= p
                BY <3>1, <3>2
            <4>2. LogTerm(i, p) = LogChain(i).at[p].term
                <5>1. lastIncludedIndex[i] = 0 /\ lastIncludedTerm[i] = 0 /\ LogChain(i).at[0].term = 0
                    BY LogIs DEF Stepped, Bookkeeping, NoSnapshots
                <5>2. p # 0 => p \in Held(i)
                    BY <1>2, <4>1, <5>1 DEF Held
                <5>3. \A q \in Held(i) : LogChain(i).at[q] = EntryAt(i, q)
                    BY StepTypes DEF LogChainsAre, LogChainIs
                <5> QED BY <5>1, <5>2, <5>3 DEF LogTerm
            <4>3. n \in Span(LogChain(i)) /\ p \in Span(LogChain(i))
                BY <1>2, <4>1, LogIs
            <4>4. LogChain(i).at[n].term <= LogChain(i).at[p].term
                BY <4>1, <4>3, LogIs DEF Ascending
            <4>5. LogChain(i).at[n].term = t
                BY <1>2, <3>2
            <4> QED BY <1>2, <3>4, <4>1, <4>2, <4>4, <4>5
        <3> QED BY <1>2, <3>1, <3>3, <3>4 DEF Timely
    <2> QED BY <2>1, <2>2 DEF StillLeads
<1>5. ASSUME NEW m \in rpcs', m.type = "AppendEntriesReply", m.success, m.from = i, m.to = j,
             m.term = t, m.match >= n
      PROVE  n <= last /\ (Acked(i, j, n) \/ JustJoined(i, j, n))
    <2>1. m.match \in Nat
        BY <1>5, StepTypes, RpcTypes DEF TypeOK, AppendEntriesReplyRpc
    <2>2. CASE m \in rpcs
        <3>1. m.match <= last
            BY <1>1, <1>2, <1>5, <2>2 DEF FollowersWithin, OfLeader
        <3>2. Acked(i, j, n)
            BY <1>2, <1>5, <2>2 DEF Acked
        <3> QED BY <1>5, <2>1, <3>1, <3>2
    <2>3. ASSUME NEW k \in rpcs, Answer(k, m) PROVE n <= last /\ JustJoined(i, j, n)
        <3>1. /\ k \in Calls /\ k.from = i /\ k.to = j /\ k.term = t
              /\ m.match = CallChain(k).last /\ Accepts(j, k)
            BY <1>5, <2>3 DEF Answer
        <3>2. OfLeader(k)
            BY <1>1, <1>2, <3>1 DEF OfLeader
        <3>3. Within(CallChain(k), LogChain(i))
            BY <3>1, <3>2, CallWithin DEF Stepped, Bookkeeping
        <3>4. LogChain(i).last = last
            BY <1>2, LogIs
        <3> QED BY <1>2, <1>5, <2>1, <3>1, <3>3, <3>4 DEF Within, JustJoined
    <2> QED BY <1>1, <1>5, <2>2, <2>3 DEF MessagesTraced, MessageTraced
<1> QED BY <1>1, <1>2, <1>4, <1>5 DEF Acked

\* The log of a follower that has joined a leader's call to it.
LEMMA JoinedHas ==
    ASSUME Stepped, NEW i \in Node, NEW j \in Node, NEW k \in Calls, NEW n, NEW e,
           state[i] = "Leader", k.from = i, k.term = currentTerm[i], Accepts(j, k),
           n <= CallChain(k).last, Has(i, n, e)
    PROVE  Has(j, n, e)'
<1>1. PICK c, d, new, old :
          c = CallChain(k) /\ d = LogChain(i) /\ new = LogChain(j)' /\ old = LogChain(j)
    OBVIOUS
<1>2. Within(c, d)
    <2>1. OfLeader(k)
        BY DEF OfLeader
    <2> QED BY <1>1, <2>1, CallWithin DEF Stepped, Bookkeeping
<1>3. JoinOf(new, old, c)
    BY <1>1 DEF Accepts
<1>4. /\ c.base \in Nat /\ c.last \in Nat /\ c.base <= c.last
      /\ old.base = 0 /\ d.base = 0 /\ d.last \in Nat /\ old.last \in Nat
    BY <1>1, CallIs, LogIs
<1>5. n \in Nat \ {0} /\ n \in Owned(d) /\ d.at[n] = e /\ n <= c.last
    BY <1>1, HasType
<1>6. n \in Owned(new)
    BY <1>3, <1>4, <1>5 DEF JoinOf, Owned
<1>7. CASE ~(n <= c.base)
    <2>1. n \in Owned(c)
        BY <1>4, <1>5, <1>7 DEF Owned
    <2>2. new.at[n] = c.at[n]
        BY <1>3, <1>6, <1>7 DEF JoinOf
    <2>3. c.at[n] = d.at[n]
        BY <1>2, <2>1 DEF Within
    <2> QED BY <1>1, <1>5, <1>6, <2>2, <2>3 DEF Has, Holds
<1>8. CASE n <= c.base
    <2>1. new.at[n] = old.at[n]
        BY <1>3, <1>6, <1>8 DEF JoinOf
    <2>2. Agree(old, d)
        BY <1>1, LogIs DEF Stepped, MatchingParts, ChainsAgree
    <2>3. c.base \in Span(old) /\ c.base \in Span(d) /\ c.base \in Span(c)
        BY <1>2, <1>3, <1>4 DEF JoinOf, Within, Span
    <2>4. old.at[c.base].term = d.at[c.base].term
        BY <1>2, <1>3, <2>3 DEF JoinOf, Within
    <2>5. n \in Span(old) /\ n \in Span(d) /\ n \in Owned(old)
        BY <1>4, <1>5, <1>8, <2>3 DEF Span, Owned
    <2>6. old.at[n] = d.at[n]
        BY <1>5, <1>8, <2>2, <2>3, <2>4, <2>5 DEF Agree
    <2> QED BY <1>1, <1>5, <1>6, <2>1, <2>6 DEF Has, Holds
<1> QED BY <1>7, <1>8

\* A node remembers the candidates it has voted for.
LEMMA VoterKnows ==
    ASSUME ElectionInv, NEW i \in Node, NEW j \in Node, state[i] = "Candidate", VotedFor(j, i)
    PROVE  Remembers(j, i, currentTerm[i])
BY DEF VotedFor, ElectionInv, GrantsRemembered, Campaigning

\* No later candidate has the vote of a node that is still in e's term.
NotAhead == \A i, j \in Node : state[i] = "Candidate" /\ VotedFor(j, i) => currentTerm[i] <= currentTerm[j]

LEMMA VotersNotAhead == ElectionInv => NotAhead
BY VoterKnows DEF NotAhead, Remembers

\* A follower keeps what it has just joined to its log.
LEMMA JoinedKeeps ==
    ASSUME Stepped, NEW i \in Node, NEW j \in Node, NEW n, NEW e, state[i] = "Leader",
           e.term = currentTerm[i], Has(i, n, e), JustJoined(i, j, n)
    PROVE  Keeps(j, n, e)'
<1>1. PICK k \in Calls : /\ k.from = i /\ k.to = j /\ k.term = currentTerm[i]
                         /\ Accepts(j, k) /\ n <= CallChain(k).last
    BY DEF JustJoined
<1>2. Has(j, n, e)'
    BY <1>1, JoinedHas
<1>3. currentTerm'[j] = e.term /\ TermsRise
    BY <1>1, StepTypes DEF Accepts
<1>4. NoCut(j, n, e)'
    <2>1. ASSUME NEW m \in Calls', m.to = j, m.term = e.term PROVE FALSE
        <3>1. m \in Calls /\ m # k
            BY <1>1, <2>1 DEF Accepts
        <3>2. m.from = k.from /\ m.to = k.to
            BY <1>1, <2>1, <3>1 DEF Stepped, Bookkeeping, OneCall
        <3> QED BY <3>1, <3>2 DEF Calls, Stepped, Bookkeeping, OneCall
    <2> QED BY <2>1 DEF NoCut
<1>5. ASSUME NEW x \in Node, state'[x] = "Candidate", currentTerm'[x] > e.term, VotedFor(j, x)'
      PROVE  FALSE
    <2>1. (ElectionInv => NotAhead)'
        BY VotersNotAhead, PTL
    <2>2. currentTerm'[x] <= currentTerm'[j]
        BY <1>5, <2>1 DEF NotAhead, Stepped
    <2> QED BY <1>3, <1>5, <2>2 DEF TermsRise
<1> QED BY <1>2, <1>4, <1>5 DEF Keeps

\* When a majority is not beyond a term, there is nothing of a later term.
LEMMA NothingLater ==
    ASSUME TypeOK, NEW Q \in SUBSET Node, IsMajority(Q), NEW t \in Nat,
           \A j \in Q : currentTerm[j] <= t,
           NEW x \in Node, NEW u \in Nat, Led(x, u)
    PROVE  u <= t
<1>1. PICK P \in SUBSET Node : IsMajority(P) /\ \A j \in P : Pledged(j, x, u)
    BY DEF Led
<1>2. PICK j \in Node : j \in P /\ j \in Q
    BY <1>1, MajoritiesMeet
<1>3. u <= currentTerm[j] /\ currentTerm[j] <= t /\ currentTerm[j] \in Nat
    BY <1>1, <1>2 DEF Pledged, Remembers, TypeOK
<1> QED BY <1>3

\* The last entry of a leader's log, while a majority is not beyond its term.
NewestLasts ==
    \A i \in Node : \A Q \in SUBSET Node : \A n \in Nat \ {0} : \A e :
        /\ state[i] = "Leader" /\ n = LastLogIndex(i) /\ Has(i, n, e) /\ e.term = currentTerm[i]
        /\ IsMajority(Q) /\ \A j \in Q : currentTerm[j] <= currentTerm[i]
        => Lasting(n, e) /\ Keeps(i, n, e)

LEMMA NewestKept == ElectionInv /\ MatchingParts /\ Bookkeeping => NewestLasts
<1> SUFFICES ASSUME ElectionInv, MatchingParts, Bookkeeping,
                    NEW i \in Node, NEW Q \in SUBSET Node, NEW n \in Nat \ {0}, NEW e,
                    state[i] = "Leader", n = LastLogIndex(i), Has(i, n, e), e.term = currentTerm[i],
                    IsMajority(Q), \A j \in Q : currentTerm[j] <= currentTerm[i]
             PROVE  Lasting(n, e) /\ Keeps(i, n, e)
    BY DEF NewestLasts
<1>1. TypeOK /\ ElectionSafety /\ OneLeads /\ ChainsTyped
    BY InvImpliesSafety, OneLed, ChainTypes DEF ElectionInv
<1>2. PICK t \in Nat : t = currentTerm[i] /\ t = e.term
    BY <1>1 DEF TypeOK
<1>3. \A x \in Node : \A u \in Nat : Led(x, u) => u <= t
    BY <1>1, <1>2, NothingLater
<1>4. /\ LogChain(i) \in Chains /\ LogChain(i).last = n
      /\ n \in Owned(LogChain(i)) /\ LogChain(i).at[n] = e
    BY <1>1, LogChains, LogInChains DEF Has, Holds
<1>5. \A k \in Node : state[k] = "Leader" /\ currentTerm[k] >= t => k = i
    <2> SUFFICES ASSUME NEW k \in Node, state[k] = "Leader", currentTerm[k] >= t PROVE k = i
        OBVIOUS
    <2>1. Led(k, currentTerm[k]) /\ currentTerm[k] \in Nat
        BY <1>1, LeaderLed DEF TypeOK
    <2>2. currentTerm[k] = t
        BY <1>3, <2>1
    <2> QED BY <1>1, <1>2, <2>2 DEF ElectionSafety
<1>6. ASSUME NEW c \in Chains PROVE Respects(c, n, e)
    <2> SUFFICES ASSUME NEW k \in Owned(c), c.at[k].term > t \/ (c.at[k].term = t /\ k >= n)
                 PROVE  k >= n /\ (n \in Owned(c) => c.at[n] = e)
        BY <1>2 DEF Respects
    <2>1. c.at[k].term \in Nat /\ k \in Int
        <3>1. IsChain(c) /\ c.at[k] \in Entry
            BY <1>1, ChainsAreChains
        <3> QED BY <3>1 DEF Entry, Owned, IsChain
    <2>2. \E x \in Node : Led(x, c.at[k].term)
        BY DEF MatchingParts, EntriesLed
    <2>3. c.at[k].term = t /\ k >= n
        BY <1>3, <2>1, <2>2
    <2>4. k <= LastLogIndex(i)
        BY <1>2, <2>3 DEF MatchingParts, LeaderHasLast
    <2>5. k = n
        BY <2>1, <2>3, <2>4
    <2>6. Agree(c, LogChain(i))
        BY <1>4 DEF MatchingParts, ChainsAgree
    <2>7. k \in Span(c) /\ k \in Span(LogChain(i))
        BY <1>1, <1>4, <2>5, ChainsAreChains, SpanOwned
    <2>8. c.at[k].term = LogChain(i).at[k].term
        BY <1>2, <1>4, <2>3, <2>5
    <2>9. c.at[n] = LogChain(i).at[n]
        BY <1>4, <2>1, <2>5, <2>6, <2>7, <2>8 DEF Agree
    <2> QED BY <1>4, <2>3, <2>9
<1>7. ASSUME NEW m \in Calls, m.term >= t
      PROVE  /\ m.term = t /\ m.from = i /\ m.to # i
             /\ n <= CallChain(m).base => CallChain(m).at[CallChain(m).base].term = t
    <2>1. m.from \in Node /\ m.term \in Nat /\ Led(m.from, m.term) /\ m.from # m.to
        BY <1>1, CallTypes DEF MatchingParts, CallsLed, Calls
    <2>2. m.term = t
        BY <1>3, <1>7, <2>1
    <2>3. Led(m.from, currentTerm[i])
        BY <1>2, <2>1, <2>2
    <2>4. m.from = i
        BY <1>1, <2>1, <2>3 DEF OneLeads
    <2>5. Within(CallChain(m), LogChain(i))
        <3>1. OfLeader(m)
            BY <1>2, <2>2, <2>4 DEF OfLeader
        <3> QED BY <2>4, <3>1, CallWithin DEF Bookkeeping
    <2>6. ASSUME n <= CallChain(m).base PROVE CallChain(m).at[CallChain(m).base].term = t
        <3>1. PICK c : c = CallChain(m) /\ Typed(c)
            BY <1>1, CallTypes DEF ChainsTyped
        <3>2. c.base \in Span(c) /\ c.last <= n /\ c.base \in Int /\ c.last \in Int /\ c.base <= c.last
            BY <1>4, <2>5, <3>1 DEF Typed, Span, Within, IsChain
        <3>3. c.base = n
            BY <2>6, <3>1, <3>2
        <3> QED BY <1>2, <1>4, <2>5, <3>1, <3>2, <3>3 DEF Within
    <2> QED BY <2>1, <2>2, <2>4, <2>6
<1>8. Lasting(n, e)
    <2>1. \A m \in Calls : m.term \in Nat
        BY <1>1, CallTypes
    <2>2. \A m \in Calls : ~(m.term > e.term)
        BY <1>2, <1>7, <2>1
    <2>3. \A m \in Calls : m.term >= e.term /\ n <= CallChain(m).base =>
                               CallChain(m).at[CallChain(m).base].term >= e.term
        BY <1>2, <1>7
    <2> QED BY <1>2, <1>5, <1>6, <2>2, <2>3 DEF Lasting
<1>9. Keeps(i, n, e)
    <2>1. NoCut(i, n, e)
        BY <1>2, <1>7 DEF NoCut
    <2>2. ASSUME NEW x \in Node, state[x] = "Candidate", currentTerm[x] > e.term, VotedFor(i, x)
          PROVE  FALSE
        <3>1. currentTerm[x] <= currentTerm[i] /\ currentTerm[x] \in Nat
            BY <1>1, <2>2, VotersNotAhead DEF NotAhead, TypeOK
        <3> QED BY <1>2, <2>2, <3>1
    <2> QED BY <2>1, <2>2 DEF Keeps
<1> QED BY <1>8, <1>9

LEMMA AcksKeptStep ==
    ASSUME Stepped, Bookkeeping', AcksKept
    PROVE  AcksKept'
<1> SUFFICES ASSUME NEW i \in Node, NEW n \in Owned(LogChain(i)'), NEW e, e = LogChain(i)'.at[n],
                    state'[i] = "Leader", e.term = currentTerm'[i], MayBeCommitted(i, n)'
             PROVE  Lasting(n, e)' /\ \A j \in Node : Acked(i, j, n)' => Keeps(j, n, e)'
    BY DEF AcksKept, Owned
<1>1. PICK c, new : c = LogChain(i) /\ new = LogChain(i)'
    OBVIOUS
<1>2. PICK last \in Nat : last = LastLogIndex(i)
    BY StepTypes DEF LastIndexNat
<1>3. IsChain(c) /\ c.base = 0 /\ c.last = last /\ Owned(c) = 1 .. last /\ c \in Chains
    BY <1>1, <1>2, LogIs
<1>4. new = c \/ (Grows(i) /\ \E x : ExtensionOf(new, c, x))
    BY <1>1, CampaignersGrow DEF Longer, Grows
<1>5. n \in Nat \ {0} /\ (n \in Owned(c) \/ (Grows(i) /\ n = last + 1 /\ n = LastLogIndex(i)'))
    <2>1. CASE new = c
        BY <1>1, <1>3, <2>1
    <2>2. ASSUME NEW x, Grows(i), ExtensionOf(new, c, x)
          PROVE  n \in Nat \ {0} /\ (n \in Owned(c) \/ (Grows(i) /\ n = last + 1 /\ n = LastLogIndex(i)'))
        <3>1. new.base = 0 /\ new.last = last + 1
            BY <1>3, <2>2 DEF ExtensionOf
        <3>2. n \in 1 .. last + 1
            BY <1>1, <3>1 DEF Owned
        <3>3. LastLogIndex(i)' = last + 1
            BY <1>2, <2>2, LongerLast DEF Longer
        <3> QED BY <1>3, <2>2, <3>2, <3>3
    <2> QED BY <1>4, <2>1, <2>2
<1>6. n \in Owned(c) => e = c.at[n] /\ Has(i, n, e)
    BY <1>1, <1>4 DEF ExtensionOf, Has, Holds
<1>7. StillLeads(i)
    <2>1. ASSUME NewlyLeads(i) PROVE FALSE
        <3>1. new = c
            BY <1>1, <2>1, NewLeaderLog
        <3>2. PICK k \in Node : Led(k, c.at[n].term)
            BY <1>1, <1>3, <3>1 DEF Stepped, MatchingParts, EntriesLed
        <3>3. Led(k, currentTerm'[i])
            BY <1>1, <3>1, <3>2
        <3>4. state[i] = "Leader"
            BY <3>3, OldLeader
        <3> QED BY <2>1, <3>4 DEF NewlyLeads
    <2> QED BY <2>1 DEF Stepped, MovesTraced, LeadersTraced
<1>8. state[i] = "Leader" /\ currentTerm'[i] = currentTerm[i] /\ e.term = currentTerm[i]
    BY <1>7 DEF StillLeads
<1>9. PICK t \in Nat : t = currentTerm[i]
    BY StepTypes DEF TermsRise
<1>10. IsMajority({j \in Node : Acked(i, j, n)' \/ currentTerm'[j] <= t})
    BY <1>8, <1>9 DEF MayBeCommitted, IsMajority
<1>11. CASE n \in Owned(c)
    <2>1. \A j \in Node : Acked(i, j, n)' => Acked(i, j, n) \/ JustJoined(i, j, n)
        BY <1>1, <1>5, <1>6, <1>7, <1>8, <1>11, AckFrom DEF Acked
    <2>2. \A j \in Node : JustJoined(i, j, n) => currentTerm[j] <= t
        BY <1>9 DEF JustJoined, Accepts
    <2>3. \A j \in Node : currentTerm'[j] <= t => currentTerm[j] <= t
        BY StepTypes DEF TermsRise
    <2> DEFINE Q == {j \in Node : Acked(i, j, n) \/ currentTerm[j] <= t}
    <2>4. IsMajority(Q)
        <3>1. {j \in Node : Acked(i, j, n)' \/ currentTerm'[j] <= t} \subseteq Q
            BY <2>1, <2>2, <2>3
        <3> QED BY <1>10, <3>1, MajoritySuperset
    <2>5. Lasting(n, e) /\ \A j \in Node : Acked(i, j, n) => Keeps(j, n, e)
        BY <1>1, <1>6, <1>8, <1>9, <1>11, <2>4 DEF AcksKept, MayBeCommitted
    <2>6. Backed(n, e)
        <3>1. Led(i, e.term)
            BY <1>8, LeaderLed DEF Stepped
        <3>2. Keeps(i, n, e)
            BY <2>5 DEF Acked
        <3>3. \A j \in Q : Keeps(j, n, e) \/ (currentTerm[j] <= e.term /\ Keeps(i, n, e))
            BY <1>8, <1>9, <2>5, <3>2
        <3> HIDE DEF Q
        <3>4. Q \in SUBSET Node
            BY DEF Q
        <3> QED BY <2>4, <3>1, <3>3, <3>4 DEF Backed
    <2>7. Lasting(n, e)'
        BY <1>5, <1>8, <1>9, <2>5, <2>6, LastingKept
    <2>8. ASSUME NEW j \in Node, Acked(i, j, n)' PROVE Keeps(j, n, e)'
        <3>1. CASE Acked(i, j, n)
            BY <2>5, <3>1, KeepsKept
        <3>2. CASE JustJoined(i, j, n)
            BY <1>6, <1>8, <1>11, <3>2, JoinedKeeps
        <3> QED BY <2>1, <2>8, <3>1, <3>2
    <2> QED BY <2>7, <2>8
<1>12. CASE n \notin Owned(c)
    <2>1. n = last + 1 /\ n = LastLogIndex(i)'
        BY <1>5, <1>12
    <2>2. \A j \in Node : Acked(i, j, n)' => j = i
        BY <1>2, <1>5, <1>7, <2>1, AckFrom
    <2>3. PICK Q \in SUBSET Node : Q = {j \in Node : Acked(i, j, n)' \/ currentTerm'[j] <= t}
        OBVIOUS
    <2>4. IsMajority(Q) /\ \A j \in Q : currentTerm'[j] <= currentTerm'[i]
        BY <1>8, <1>9, <1>10, <2>2, <2>3
    <2>5. NewestLasts'
        <3>1. (ElectionInv /\ MatchingParts /\ Bookkeeping => NewestLasts)'
            BY NewestKept, PTL
        <3> QED BY <3>1 DEF Stepped
    <2>6. Has(i, n, e)'
        BY DEF Has, Holds, Owned
    <2>7. Lasting(n, e)' /\ Keeps(i, n, e)'
        BY <1>5, <2>1, <2>4, <2>5, <2>6 DEF NewestLasts
    <2> QED BY <2>2, <2>7
<1> QED BY <1>11, <1>12

-----------------------------------------------------------------------------
(* Committed entries. *)

\* What a follower finds in a leader's call at the leader's commitIndex, it then has.
LEMMA CalledHas ==
    ASSUME Stepped, NEW i \in Node, NEW m \in Calls, Accepts(i, m),
           NEW n \in Nat \ {0}, NEW e, e.term \in 0 .. m.term,
           Carries(CallChain(m), n, e), Lasting(n, e)
    PROVE  Has(i, n, e)' /\ NoCut(i, n, e)'
<1>1. PICK c, old, new : /\ c = CallChain(m) /\ old = LogChain(i) /\ new = LogChain(i)'
                         /\ JoinOf(new, old, c)
    BY DEF Accepts
<1>2. /\ c.base \in Nat /\ c.last \in Nat /\ c.base <= c.last /\ old.base = 0 /\ old.last \in Nat
      /\ Typed(old) /\ m.term \in Nat
    BY <1>1, CallIs, LogIs
<1>3. n <= c.last /\ (n \in Owned(c) => c.at[n] = e)
    BY <1>1 DEF Carries
<1>4. n \in Owned(new)
    BY <1>1, <1>2, <1>3 DEF JoinOf, Owned
<1>5. new.at[n] = e
    <2>1. CASE ~(n <= c.base)
        BY <1>1, <1>2, <1>3, <1>4, <2>1 DEF JoinOf, Owned
    <2>2. CASE n <= c.base
        <3>1. c.at[c.base].term >= e.term
            BY <1>1, <2>2 DEF Lasting
        <3>2. c.base \in Span(old) /\ old.at[c.base].term = c.at[c.base].term
            BY <1>1 DEF JoinOf
        <3>3. c.base \in Owned(old) /\ n \in Owned(old)
            BY <1>2, <2>2, <3>2 DEF Span, Owned
        <3>4. Respects(old, n, e)
            BY <1>1, LogIs DEF Lasting
        <3>5. old.at[c.base].term \in Int
            BY <1>2, <3>2 DEF Typed
        <3>6. old.at[c.base].term > e.term \/ (old.at[c.base].term = e.term /\ c.base >= n)
            BY <1>2, <2>2, <3>1, <3>2, <3>5
        <3>7. old.at[n] = e
            BY <3>3, <3>4, <3>6 DEF Respects
        <3> QED BY <1>1, <1>4, <2>2, <3>7 DEF JoinOf
    <2> QED BY <2>1, <2>2
<1>6. ASSUME NEW k \in Calls', k.to = i, k.term = e.term, currentTerm'[i] <= k.term PROVE FALSE
    <2>1. k \in Calls /\ k # m /\ m.to = i /\ currentTerm'[i] = m.term
        BY <1>6 DEF Accepts
    <2>2. k.term = m.term
        BY <1>2, <1>6, <2>1
    <2>3. k.from = m.from
        BY <2>1, <2>2 DEF Stepped, Bookkeeping, OneCall
    <2> QED BY <1>6, <2>1, <2>3 DEF Calls, Stepped, Bookkeeping, OneCall
<1>7. NoCut(i, n, e)'
    BY <1>6 DEF NoCut
<1> QED BY <1>1, <1>4, <1>5, <1>7 DEF Has, Holds

\* What a term at an index says of the log.
TermsOfLogs ==
    \A i \in Node : \A n \in Nat \ {0} : LogTerm(i, n) \in Nat =>
        n \in Owned(LogChain(i)) /\ LogChain(i).at[n].term = LogTerm(i, n)

LEMMA LogTermIs == TypeOK /\ NoSnapshots => TermsOfLogs
<1> SUFFICES ASSUME TypeOK, NoSnapshots, NEW i \in Node, NEW n \in Nat \ {0}, LogTerm(i, n) \in Nat
             PROVE  n \in Owned(LogChain(i)) /\ LogChain(i).at[n].term = LogTerm(i, n)
    BY DEF TermsOfLogs
<1>1. LogChainIs(i)
    BY LogChains DEF LogChainsAre
<1>2. lastIncludedIndex[i] = 0
    BY DEF NoSnapshots
<1>3. n \in Held(i) /\ LogTerm(i, n) = EntryAt(i, n).term
    <2>1. n # lastIncludedIndex[i] /\ -1 \notin Nat
        BY <1>2
    <2> QED BY <2>1 DEF LogTerm
<1> QED BY <1>1, <1>3 DEF LogChainIs

\* The entry at commitIndex.
LEMMA CommittedHas ==
    ASSUME Stepped, CommitsSecure, NEW i \in Node, commitIndex[i] > 0
    PROVE  \E e : /\ Has(i, commitIndex[i], e) /\ NoCut(i, commitIndex[i], e)
                  /\ Secure(commitIndex[i], e)
BY DEF CommitsSecure

LEMMA OldCommit ==
    ASSUME Stepped, CommitsSecure, NEW i \in Node, NEW n \in Nat \ {0}, n = commitIndex[i]
    PROVE  \E e : Has(i, n, e)' /\ NoCut(i, n, e)' /\ Secure(n, e)'
<1>1. PICK e : Has(i, n, e) /\ NoCut(i, n, e) /\ Secure(n, e)
    BY CommittedHas
<1>2. e.term \in Nat
    BY <1>1, HasType
<1> QED BY <1>1, <1>2, HasKept, NoCutKept, SecureKept DEF Secure

LEMMA CountedKept ==
    ASSUME Stepped, Bookkeeping', AcksKept', NEW i \in Node, commitIndex[i] \in Nat,
           CountsCommit(i), NEW n, n = commitIndex'[i]
    PROVE  \E e : Has(i, n, e)' /\ NoCut(i, n, e)' /\ Secure(n, e)'
<1>1. /\ n \in Nat \ {0} /\ LogTerm(i, n)' = currentTerm[i]
      /\ IsMajority({j \in Node : j = i \/ matchIndex'[i][j] >= n})
    BY DEF CountsCommit
<1>2. state'[i] = "Leader" /\ currentTerm'[i] = currentTerm[i] /\ currentTerm[i] \in Nat
    BY StepTypes DEF CountsCommit, TermsRise
<1>3. TermsOfLogs'
    <2>1. (TypeOK /\ NoSnapshots => TermsOfLogs)'
        BY LogTermIs, PTL
    <2> QED BY <2>1, StepTypes DEF Bookkeeping
<1>4. PICK e : e = LogChain(i)'.at[n]
    OBVIOUS
<1>5. n \in Owned(LogChain(i)') /\ e.term = currentTerm'[i]
    BY <1>1, <1>2, <1>3, <1>4 DEF TermsOfLogs, Owned
<1>6. PICK Q \in SUBSET Node : Q = {j \in Node : j = i \/ matchIndex'[i][j] >= n}
    OBVIOUS
<1>7. \A j \in Q : Acked(i, j, n)'
    BY <1>6 DEF Acked
<1>8. MayBeCommitted(i, n)'
    <2>1. PICK R \in SUBSET Node : R = {j \in Node : Acked(i, j, n)' \/ currentTerm'[j] <= currentTerm'[i]}
        OBVIOUS
    <2>2. Q \subseteq R
        BY <1>7, <2>1
    <2>3. IsMajority(R)
        BY <1>1, <1>6, <2>2, MajoritySuperset
    <2> QED BY <2>1, <2>3 DEF MayBeCommitted, IsMajority
<1>9. Lasting(n, e)' /\ \A j \in Node : Acked(i, j, n)' => Keeps(j, n, e)'
    BY <1>2, <1>4, <1>5, <1>8 DEF AcksKept, Owned
<1>10. KeptByMajority(n, e)'
    BY <1>1, <1>6, <1>7, <1>9 DEF KeptByMajority, IsMajority
<1>11. Keeps(i, n, e)'
    BY <1>9 DEF Acked
<1> QED BY <1>9, <1>10, <1>11 DEF Keeps, Secure

\* A follower's commitIndex after it has joined a call to its log is the leader's.
LEMMA JoinedCommit ==
    ASSUME Stepped, CommitsSecure, CallsSecure, NEW i \in Node, NEW m \in Calls, Accepts(i, m),
           commitIndex[i] \in Nat, commitIndex'[i] = NewCommitIndex(m, i), NEW n \in Nat \ {0},
           n = commitIndex'[i]
    PROVE  \E e : Has(i, n, e)' /\ NoCut(i, n, e)' /\ Secure(n, e)'
<1>1. PICK c, old, new : /\ c = CallChain(m) /\ old = LogChain(i) /\ new = LogChain(i)'
                         /\ JoinOf(new, old, c)
    BY DEF Accepts
<1>2. m.leaderCommit \in Nat /\ m.term \in Nat /\ c.last \in Nat /\ old.last \in Nat
    BY <1>1, CallIs, LogIs
<1>3. PICK last \in Nat : last = LastLogIndex(i)' /\ last = new.last
    <2>1. LogChainsAre' /\ LastIndexNat'
        BY StepTypes
    <2>2. new.last = LastLogIndex(i)'
        BY <1>1, <2>1 DEF LogChainsAre, LogChainIs
    <2> QED BY <2>1, <2>2 DEF LastIndexNat
<1>4. CASE m.leaderCommit <= commitIndex[i]
    BY <1>4, OldCommit DEF NewCommitIndex
<1>5. CASE ~(m.leaderCommit <= commitIndex[i])
    <2>1. m.leaderCommit > 0
        BY <1>2, <1>5
    <2>2. PICK e \in [term : 0 .. m.term, command : Value \cup {Nil}] :
              Carries(c, m.leaderCommit, e) /\ Secure(m.leaderCommit, e)
        BY <1>1, <2>1 DEF CallsSecure
    <2>3. c.last <= last
        BY <1>1, <1>2, <1>3 DEF JoinOf
    <2>4. n = m.leaderCommit
        <3>1. m.leaderCommit <= c.last
            BY <2>2 DEF Carries
        <3>2. n = IF m.leaderCommit < last THEN m.leaderCommit ELSE last
            BY <1>3, <1>5 DEF NewCommitIndex
        <3> QED BY <1>2, <1>3, <2>3, <3>1, <3>2
    <2>5. Has(i, n, e)' /\ NoCut(i, n, e)'
        BY <1>1, <2>2, <2>4, CalledHas DEF Secure
    <2> QED BY <2>2, <2>4, <2>5, SecureKept
<1> QED BY <1>4, <1>5

LEMMA CommitsKept ==
    ASSUME Stepped, Bookkeeping', AcksKept', CommitsSecure, CallsSecure
    PROVE  CommitsSecure'
<1> SUFFICES ASSUME NEW i \in Node, NEW n, n = commitIndex'[i], n > 0
             PROVE  \E e : /\ e = LogChain(i)'.at[n]
                           /\ Has(i, n, e)' /\ NoCut(i, n, e)' /\ Secure(n, e)'
    BY DEF CommitsSecure
<1>1. commitIndex[i] \in Nat /\ n \in Nat \ {0}
    BY StepTypes DEF TypeOK
<1>2. PICK e : Has(i, n, e)' /\ NoCut(i, n, e)' /\ Secure(n, e)'
    <2>1. CASE commitIndex'[i] = commitIndex[i]
        BY <1>1, <2>1, OldCommit
    <2>2. CASE CountsCommit(i)
        BY <1>1, <2>2, CountedKept
    <2>3. CASE \E m \in Calls : Accepts(i, m) /\ commitIndex'[i] = NewCommitIndex(m, i)
        BY <1>1, <2>3, JoinedCommit
    <2>4. CASE Restarted(i)
        BY <1>1, <2>4 DEF Restarted
    <2> QED BY <2>1, <2>2, <2>3, <2>4 DEF Stepped, MovesTraced, CommitsTraced
<1>3. e = LogChain(i)'.at[n]
    BY <1>2 DEF Has, Holds
<1> QED BY <1>2, <1>3

\* The entry at a leader's commitIndex goes with its calls.
LEMMA CallsSecureKept ==
    ASSUME Stepped, CommitsSecure, CallsSecure
    PROVE  CallsSecure'
<1> SUFFICES ASSUME NEW m \in Calls', m.leaderCommit > 0
             PROVE  \E e \in [term : 0 .. m.term, command : Value \cup {Nil}] :
                        Carries(CallChain(m), m.leaderCommit, e) /\ Secure(m.leaderCommit, e)'
    BY DEF CallsSecure, Carries, Owned, CallChain
<1>1. CASE \E k \in Calls : SameCall(k, m)
    <2>1. PICK k \in Calls : /\ k.term = m.term /\ CallChain(k) = CallChain(m)
                             /\ k.leaderCommit = m.leaderCommit
        BY <1>1 DEF SameCall, Calls
    <2>2. PICK e \in [term : 0 .. k.term, command : Value \cup {Nil}] :
              Carries(CallChain(k), k.leaderCommit, e) /\ Secure(k.leaderCommit, e)
        BY <2>1 DEF CallsSecure
    <2>3. Carries(CallChain(m), m.leaderCommit, e)
        BY <2>1, <2>2
    <2>4. Secure(m.leaderCommit, e)
        BY <2>1, <2>2
    <2> QED BY <2>1, <2>3, <2>4, SecureKept
<1>2. CASE \E i \in Node : Sends(i, m)
    <2>1. PICK i \in Node : Sends(i, m)
        BY <1>2
    <2>2. PICK n : n = m.leaderCommit
        OBVIOUS
    <2>3. m.term = currentTerm[i] /\ n = commitIndex[i] /\ n > 0 /\ currentTerm[i] \in Nat
        BY <2>1, <2>2, StepTypes DEF Sends, TermsRise
    <2>4. PICK e : Has(i, n, e) /\ Secure(n, e)
        BY <2>3, CommittedHas
    <2>5. e \in Entry /\ e.term \in Nat /\ e.term <= currentTerm[i]
        BY <2>4, HasType
    <2>6. e \in [term : 0 .. m.term, command : Value \cup {Nil}]
        BY <2>3, <2>5 DEF Entry
    <2>7. PICK c, d : c = CallChain(m) /\ d = LogChain(i)
        OBVIOUS
    <2>8. IsChain(d) /\ SuffixOf(c, d) /\ Holds(d, n, e)
        BY <2>1, <2>4, <2>7, LogIs DEF Sends, Has, CallChain
    <2>9. Carries(c, n, e)
        BY <2>8, SuffixCarries
    <2> QED BY <2>2, <2>4, <2>6, <2>7, <2>9, SecureKept
<1> QED BY <1>1, <1>2 DEF Stepped, MovesTraced, CallsMade

\* Up to commitIndex the log stays as it is.
LEMMA PrefixKept ==
    ASSUME Stepped, CommitsSecure, NEW i \in Node, NEW k \in Nat \ {0}, NEW n \in Nat,
           n = commitIndex[i], k <= n, NEW x, Has(i, k, x)
    PROVE  Has(i, k, x)'
<1>1. PICK old, new : old = LogChain(i) /\ new = LogChain(i)'
    OBVIOUS
<1>2. k \in Owned(old) /\ old.at[k] = x /\ IsChain(old) /\ old.base = 0
    BY <1>1, LogIs DEF Has, Holds
<1>3. CASE new = old
    BY <1>1, <1>2, <1>3 DEF Has, Holds
<1>4. CASE Grows(i)
    <2>1. PICK e : ExtensionOf(new, old, e)
        BY <1>1, <1>4 DEF Grows
    <2> QED BY <1>1, <1>2, <2>1, ExtensionHolds DEF Has, Holds
<1>5. ASSUME NEW m \in Calls, Accepts(i, m) PROVE Has(i, k, x)'
    <2>1. PICK c : c = CallChain(m) /\ JoinOf(new, old, c)
        BY <1>1, <1>5 DEF Accepts
    <2>2. PICK e : Has(i, n, e) /\ NoCut(i, n, e) /\ Secure(n, e)
        <3>1. commitIndex[i] > 0
            OBVIOUS
        <3> QED BY <3>1, CommittedHas
    <2>3. n \in Owned(old) /\ old.at[n] = e
        BY <1>1, <2>2 DEF Has, Holds
    <2>4. n \in Owned(new) /\ new.at[n] = e
        BY <1>1, <2>2, HasKept DEF Has, Holds, Secure
    <2>5. c.base \in Nat /\ c.last \in Nat /\ new.last = c.last /\ new.base = 0 /\ old.last \in Nat
        BY <1>1, <1>2, <2>1, CallIs, LogIs DEF JoinOf
    <2>6. k \in Owned(new)
        BY <1>2, <2>4, <2>5 DEF Owned
    <2>7. CASE k <= c.base
        BY <1>1, <1>2, <2>1, <2>6, <2>7 DEF JoinOf, Has, Holds
    <2>8. CASE ~(k <= c.base)
        <3>1. ~(n <= c.base)
            BY <2>5, <2>8
        <3>2. k \in Owned(c) /\ n \in Owned(c)
            BY <2>4, <2>5, <2>6, <2>8, <3>1 DEF Owned
        <3>3. c.at[n] = e /\ new.at[k] = c.at[k]
            BY <2>1, <2>4, <2>6, <2>8, <3>1 DEF JoinOf
        <3>4. Agree(old, c)
            BY <1>1, <2>1, LogIs, CallIs DEF Stepped, MatchingParts, ChainsAgree
        <3>5. k \in Span(old) \cap Span(c) /\ n \in Span(old) \cap Span(c)
            BY <1>2, <2>3, <2>5, <3>2 DEF Owned, Span
        <3>6. old.at[k] = c.at[k]
            BY <1>2, <2>3, <3>2, <3>3, <3>4, <3>5 DEF Agree
        <3> QED BY <1>1, <1>2, <2>6, <3>3, <3>6 DEF Has, Holds
    <2> QED BY <2>7, <2>8
<1> QED BY <1>1, <1>3, <1>4, <1>5 DEF Stepped, MovesTraced, LogsTraced

\* commitIndex only falls in a restart.
LEMMA CommitRises ==
    ASSUME Stepped, CommitsSecure, NEW i \in Node
    PROVE  Restarted(i) \/ commitIndex[i] <= commitIndex'[i]
<1>1. PICK n \in Nat : n = commitIndex[i]
    BY StepTypes DEF TypeOK
<1>2. ASSUME CountsCommit(i) PROVE n <= commitIndex'[i]
    BY <1>1, <1>2 DEF CountsCommit
<1>3. ASSUME NEW m \in Calls, Accepts(i, m), commitIndex'[i] = NewCommitIndex(m, i)
      PROVE  n <= commitIndex'[i]
    <2>1. PICK last \in Nat : last = LastLogIndex(i)' /\ last = LogChain(i)'.last
        BY StepTypes DEF LastIndexNat, LogChainsAre, LogChainIs
    <2>2. n <= last
        <3>1. CASE n = 0
            BY <2>1, <3>1
        <3>2. CASE n > 0
            <4>1. PICK e : Has(i, n, e) /\ NoCut(i, n, e) /\ Secure(n, e)
                BY <1>1, <3>2, CommittedHas
            <4>2. n \in Owned(LogChain(i)')
                BY <4>1, HasKept DEF Secure, Has, Holds, Owned
            <4> QED BY <2>1, <4>2 DEF Owned
        <3> QED BY <3>1, <3>2
    <2>3. m.leaderCommit \in Nat
        BY CallIs
    <2> QED BY <1>1, <1>3, <2>1, <2>2, <2>3 DEF NewCommitIndex
<1>4. commitIndex'[i] = commitIndex[i] => n <= commitIndex'[i]
    BY <1>1
<1> QED BY <1>1, <1>2, <1>3, <1>4 DEF Stepped, MovesTraced, CommitsTraced

LEMMA AppliedKept ==
    ASSUME Stepped, CommitsSecure, AppliedCommitted
    PROVE  AppliedCommitted'
<1> SUFFICES ASSUME NEW i \in Node
             PROVE  /\ lastApplied'[i] <= commitIndex'[i]
                    /\ \A p \in Given(i)' : p.index <= commitIndex'[i] /\ Has(i, p.index, p.entry)'
    BY DEF AppliedCommitted, Given
<1>1. CASE Restarted(i)
    BY <1>1 DEF Restarted
<1>2. CASE ~Restarted(i)
    <2>1. PICK n \in Nat, k \in Nat : n = commitIndex[i] /\ k = commitIndex'[i] /\ n <= k
        BY <1>2, StepTypes, CommitRises DEF TypeOK
    <2>2. PICK a \in Nat : a = lastApplied[i]
        BY StepTypes DEF TypeOK
    <2>3. a <= n /\ \A p \in Given(i) : p.index <= n /\ Has(i, p.index, p.entry)
        BY <2>1, <2>2 DEF AppliedCommitted, Given
    <2>4. /\ lastApplied'[i] = a \/ (lastApplied'[i] = a + 1 /\ a < n)
          /\ \A p \in Given(i)' : p \in Given(i) \/ Takes(i, p)
        BY <1>2, <2>1, <2>2 DEF Stepped, MovesTraced, AppliedTraced
    <2>5. lastApplied'[i] <= k
        BY <2>1, <2>3, <2>4
    <2>6. ASSUME NEW p, Takes(i, p) PROVE p.index <= n /\ Has(i, p.index, p.entry)
        <3>1. PICK z : z = p.index
            OBVIOUS
        <3>2. z = a + 1 /\ a < n /\ z + 1 \in 1 .. Len(log[i]) /\ p.entry = log[i][z + 1]
            BY <2>1, <2>2, <2>6, <3>1 DEF Takes
        <3>3. LogChainIs(i) /\ lastIncludedIndex[i] = 0 /\ Len(log[i]) \in Nat
            <4>1. log[i] \in Seq(Entry)
                BY StepTypes DEF TypeOK, Log
            <4> QED BY <4>1, StepTypes DEF LogChainsAre, Stepped, Bookkeeping, NoSnapshots
        <3>4. z \in Held(i)
            BY <3>2, <3>3 DEF Held, LastLogIndex
        <3>5. p.entry = EntryAt(i, z)
            BY <3>2, <3>3 DEF EntryAt
        <3>6. Has(i, z, p.entry)
            BY <3>3, <3>4, <3>5 DEF Has, Holds, LogChainIs
        <3> QED BY <3>1, <3>2, <3>6
    <2>7. ASSUME NEW p \in Given(i)' PROVE p.index <= k /\ Has(i, p.index, p.entry)'
        <3>1. p.index <= n /\ Has(i, p.index, p.entry)
            BY <2>3, <2>4, <2>6, <2>7
        <3>2. p.index \in Nat \ {0}
            BY <3>1, HasType
        <3> QED BY <2>1, <3>1, <3>2, PrefixKept
    <2> QED BY <2>1, <2>5, <2>7
<1> QED BY <1>1, <1>2

-----------------------------------------------------------------------------
(* The invariant. *)

LEMMA InitCommit == Init => CommitInv
<1> SUFFICES ASSUME Init PROVE CommitInv
    OBVIOUS
<1>1. MatchingInv /\ TypeOK
    BY InitMatching DEF MatchingInv, ElectionInv
<1>2. /\ \A i \in Node : /\ state[i] = "Follower" /\ currentTerm[i] = 0
                         /\ lastIncludedIndex[i] = 0 /\ lastIncludedTerm[i] = 0
                         /\ log[i] = <<Dummy(0)>> /\ compacting[i] = << >>
                         /\ disk[i] = BlankDisk /\ commitIndex[i] = 0 /\ lastApplied[i] = 0
                         /\ applied[i] = {} /\ applyChan[i] = << >>
      /\ rpcs = {}
    BY DEF Init
<1>3. Calls = {}
    BY <1>2 DEF Calls
<1>4. NoSnapshots
    <2>1. \A i \in Node : log[i][1].term = 0
        BY <1>2 DEF Dummy
    <2>2. BlankDisk.snapshot = {}
        BY DEF BlankDisk
    <2> QED BY <1>2, <2>1, <2>2 DEF NoSnapshots
<1>5. ASSUME NEW i \in Node PROVE Span(LogChain(i)) = {0} /\ LogChain(i).at[0].term = 0
    <2>1. lastIncludedIndex[i] = 0 /\ Len(log[i]) = 1
        BY DEF Init
    <2>2. LastLogIndex(i) = 0
        BY <2>1 DEF LastLogIndex
    <2> QED BY <1>1, <1>2, <2>2, LogChains DEF LogChainsAre, LogChainIs, Span
<1>6. TermsAscend
    <2>1. \A i \in Node : Ascending(LogChain(i)) /\ UpTo(LogChain(i), currentTerm[i])
        BY <1>2, <1>5 DEF Ascending, UpTo
    <2> QED BY <1>3, <2>1 DEF TermsAscend, Chains
<1>7. OneCall /\ RequestsAreCurrent /\ CallsFromLog /\ CallsSecure
    BY <1>2, <1>3 DEF OneCall, RequestsAreCurrent, CallsFromLog, CallsSecure
<1>8. FollowersWithin /\ AcksKept /\ CommitsSecure
    BY <1>2 DEF FollowersWithin, AcksKept, CommitsSecure
<1>9. AppliedCommitted
    BY <1>2 DEF AppliedCommitted
<1> QED BY <1>1, <1>4, <1>6, <1>7, <1>8, <1>9 DEF CommitInv

LEMMA CommitStep ==
    ASSUME OrderlyNetwork, CommitInv, [Next]_vars
    PROVE  CommitInv' /\ Stepped
<1>1. MatchingInv /\ Bookkeeping /\ AcksKept /\ CommitsSecure /\ CallsSecure /\ AppliedCommitted
    BY DEF CommitInv, Bookkeeping
<1>2. Stepped /\ Bookkeeping'
    BY <1>1, BookkeepingKept
<1>3. MatchingInv'
    BY <1>1, MatchingStep DEF OrderlyNetwork
<1>4. AcksKept'
    BY <1>1, <1>2, AcksKeptStep
<1>5. CommitsSecure'
    BY <1>1, <1>2, <1>4, CommitsKept
<1>6. CallsSecure' /\ AppliedCommitted'
    BY <1>1, <1>2, CallsSecureKept, AppliedKept
<1> QED BY <1>2, <1>3, <1>4, <1>5, <1>6 DEF CommitInv, Bookkeeping

\* CommitInv is inductive: an entry of a leader's term that as many nodes have, or have
\* acknowledged, as are needed to commit it is in every log from which somebody can still be
\* elected.
THEOREM CommitInvariant == OrderlyNetwork /\ Spec => []CommitInv
<1> SUFFICES ASSUME OrderlyNetwork PROVE Spec => []CommitInv
    OBVIOUS
<1>1. CommitInv /\ [Next]_vars => CommitInv'
    BY CommitStep
<1> QED BY <1>1, InitCommit, PTL DEF Spec

-----------------------------------------------------------------------------
(* What follows for the entries that a node knows to be committed. *)

LEMMA CommitTypes ==
    ASSUME CommitInv
    PROVE  /\ TypeOK /\ LogChainsAre /\ ChainsAgree
           /\ \A i \in Node : /\ commitIndex[i] \in Nat
                              /\ IsChain(LogChain(i)) /\ LogChain(i).base = 0
                              /\ Owned(LogChain(i)) = Held(i)
                              /\ \A n \in Held(i) : LogChain(i).at[n] = EntryAt(i, n)
<1>1. TypeOK /\ ChainsAgree /\ NoSnapshots
    BY DEF CommitInv, MatchingInv, ElectionInv
<1>2. LogChainsAre
    BY <1>1, LogChains
<1>3. \A i \in Node : commitIndex[i] \in Nat /\ lastIncludedIndex[i] = 0
    BY <1>1 DEF TypeOK, NoSnapshots
<1> QED BY <1>1, <1>2, <1>3 DEF LogChainsAre, LogChainIs

\* Logs that share an entry share what is before it.
LEMMA SharedBefore ==
    ASSUME CommitInv, NEW i \in Node, NEW j \in Node, NEW n, NEW e, Has(i, n, e), Has(j, n, e),
           NEW k \in Nat \ {0}, k <= n, NEW x, Has(i, k, x)
    PROVE  Has(j, k, x)
<1>1. PICK c, d : c = LogChain(i) /\ d = LogChain(j)
    OBVIOUS
<1>2. IsChain(c) /\ IsChain(d) /\ c.base = 0 /\ d.base = 0 /\ Agree(c, d)
    BY <1>1, CommitTypes DEF LogChainsAre, LogChainIs, ChainsAgree
<1>3. n \in Owned(c) /\ n \in Owned(d) /\ c.at[n] = d.at[n] /\ k \in Owned(c) /\ c.at[k] = x
    BY <1>1 DEF Has, Holds
<1>4. k \in Owned(d) /\ k \in Span(c) \cap Span(d) /\ n \in Span(c) \cap Span(d)
    BY <1>2, <1>3 DEF IsChain, Owned, Span
<1>5. d.at[k] = x
    BY <1>2, <1>3, <1>4 DEF Agree
<1> QED BY <1>1, <1>4, <1>5 DEF Has, Holds

\* The entry at n, and the one at commitIndex, which is secure.
LEMMA CommittedEntry ==
    ASSUME CommitInv, NEW i \in Node, NEW n \in Nat \ {0}, NEW last \in Nat, last = commitIndex[i],
           n <= last
    PROVE  \E e : Has(i, last, e) /\ Secure(last, e) /\ e.term <= currentTerm[i]
<1>1. PICK e : Has(i, last, e) /\ Secure(last, e)
    BY DEF CommitInv, CommitsSecure
<1>2. last \in Span(LogChain(i)) /\ LogChain(i).at[last] = e
    BY <1>1, CommitTypes DEF Has, Holds, IsChain, Owned, Span
<1> QED BY <1>1, <1>2 DEF CommitInv, TermsAscend, UpTo

LEMMA HasStores ==
    ASSUME CommitInv, NEW j \in Node, NEW n, NEW e
    PROVE  /\ Has(j, n, e) => Stores(j, n, e) /\ n \in Held(j) /\ EntryAt(j, n) = e
           /\ n \in Held(j) => Has(j, n, EntryAt(j, n)) /\ n \in Nat \ {0}
<1>1. Owned(LogChain(j)) = Held(j) /\ \A k \in Held(j) : LogChain(j).at[k] = EntryAt(j, k)
    BY CommitTypes
<1>2. n \in Held(j) => n \in Nat \ {0}
    <2>1. LogChain(j).base = 0 /\ IsChain(LogChain(j))
        BY CommitTypes
    <2> QED BY <1>1, <2>1 DEF Owned, IsChain
<1> QED BY <1>1, <1>2 DEF Has, Holds, Stores

LEMMA SecureComplete == CommitInv => LeaderCompleteness
<1> SUFFICES ASSUME CommitInv, NEW i \in Node, NEW j \in Node, state[j] = "Leader",
                    currentTerm[j] >= currentTerm[i], NEW n \in Committed(i)
             PROVE  Stores(j, n, EntryAt(i, n))
    BY DEF LeaderCompleteness
<1>1. PICK last \in Nat : last = commitIndex[i]
    BY CommitTypes
<1>2. n \in Nat \ {0} /\ n <= last /\ Has(i, n, EntryAt(i, n))
    BY <1>1, HasStores DEF Committed
<1>3. PICK e : Has(i, last, e) /\ Secure(last, e) /\ e.term <= currentTerm[i]
    BY <1>1, <1>2, CommittedEntry
<1>4. currentTerm[j] >= e.term
    <2>1. currentTerm[i] \in Nat /\ currentTerm[j] \in Nat
        BY CommitTypes DEF TypeOK
    <2>2. last \in Held(i) /\ EntryAt(i, last) = e
        BY <1>3, HasStores
    <2>3. e.term \in Nat
        BY <2>2, CommitTypes, HeldEntry DEF Entry
    <2> QED BY <1>3, <2>1, <2>3
<1>5. Has(j, last, e)
    BY <1>3, <1>4 DEF Secure, Lasting
<1>6. Has(j, n, EntryAt(i, n))
    BY <1>2, <1>3, <1>5, SharedBefore
<1> QED BY <1>6, HasStores

LEMMA SecureOnMajority == CommitInv => CommittedOnMajority
<1> SUFFICES ASSUME CommitInv, NEW i \in Node, NEW n \in Committed(i)
             PROVE  IsMajority({j \in Node : Stores(j, n, EntryAt(i, n))})
    BY DEF CommittedOnMajority
<1>1. PICK last \in Nat : last = commitIndex[i]
    BY CommitTypes
<1>2. n \in Nat \ {0} /\ n <= last /\ Has(i, n, EntryAt(i, n))
    BY <1>1, HasStores DEF Committed
<1>3. PICK e : Has(i, last, e) /\ Secure(last, e)
    BY <1>1, <1>2, CommittedEntry
<1>4. PICK Q \in SUBSET Node : IsMajority(Q) /\ \A j \in Q : Keeps(j, last, e)
    BY <1>3 DEF Secure, KeptByMajority
<1>5. \A j \in Q : Stores(j, n, EntryAt(i, n))
    BY <1>2, <1>3, <1>4, SharedBefore, HasStores DEF Keeps
<1> QED BY <1>4, <1>5, MajoritySuperset

\* What services have executed is on two majorities, so on a node of both.
LEMMA SecureServices == CommitInv => StateMachineSafety
<1> SUFFICES ASSUME CommitInv, NEW i \in Node, NEW j \in Node,
                    NEW a \in applied[i], NEW b \in applied[j], a.index = b.index
             PROVE  a = b
    BY DEF StateMachineSafety
<1>1. a \in Position /\ b \in Position
    BY CommitTypes DEF TypeOK
<1>2. ASSUME NEW k \in Node, NEW p \in applied[k], p \in Position
      PROVE  \E Q \in SUBSET Node : IsMajority(Q) /\ \A x \in Q : Has(x, p.index, p.entry)
    <2>1. PICK last \in Nat : last = commitIndex[k]
        BY CommitTypes
    <2>2. p.index <= last /\ Has(k, p.index, p.entry)
        BY <1>2, <2>1 DEF CommitInv, AppliedCommitted
    <2>3. p.index \in Nat \ {0}
        BY <2>2, CommitTypes, HasStores DEF Has, Holds
    <2>4. PICK e : Has(k, last, e) /\ Secure(last, e)
        BY <2>1, <2>2, <2>3, CommittedEntry
    <2>5. PICK Q \in SUBSET Node : IsMajority(Q) /\ \A x \in Q : Keeps(x, last, e)
        BY <2>4 DEF Secure, KeptByMajority
    <2>6. \A x \in Q : Has(x, p.index, p.entry)
        BY <2>2, <2>3, <2>4, <2>5, SharedBefore DEF Keeps
    <2> QED BY <2>5, <2>6
<1>3. PICK Q \in SUBSET Node : IsMajority(Q) /\ \A x \in Q : Has(x, a.index, a.entry)
    BY <1>1, <1>2
<1>4. PICK R \in SUBSET Node : IsMajority(R) /\ \A x \in R : Has(x, b.index, b.entry)
    BY <1>1, <1>2
<1>5. PICK x \in Node : x \in Q /\ x \in R
    BY <1>3, <1>4, MajoritiesMeet
<1>6. a.entry = b.entry
    BY <1>3, <1>4, <1>5 DEF Has, Holds
<1> QED BY <1>1, <1>6 DEF Position

\* What a step does to the entries its nodes know to be committed.
CommittedStay ==
    \A i \in Node : \A n \in Committed(i) :
        n <= lastIncludedIndex'[i] \/ (n \in Held(i)' /\ EntryAt(i, n)' = EntryAt(i, n))

LEMMA CommittedStayStep ==
    ASSUME OrderlyNetwork, CommitInv, [Next]_vars
    PROVE  CommittedStay
<1> SUFFICES ASSUME NEW i \in Node, NEW n \in Committed(i)
             PROVE  n \in Held(i)' /\ EntryAt(i, n)' = EntryAt(i, n)
    BY DEF CommittedStay
<1>1. Stepped /\ CommitInv'
    BY CommitStep
<1>2. PICK last \in Nat : last = commitIndex[i]
    BY CommitTypes
<1>3. PICK e : e = EntryAt(i, n)
    OBVIOUS
<1>4. n \in Nat \ {0} /\ n <= last /\ Has(i, n, e)
    BY <1>2, <1>3, HasStores DEF Committed
<1>5. Has(i, n, e)'
    BY <1>1, <1>2, <1>4, PrefixKept DEF CommitInv
<1>6. LogChainsAre'
    BY <1>1, StepTypes
<1> QED BY <1>3, <1>5, <1>6 DEF Has, Holds, LogChainsAre, LogChainIs, Owned

\* A leader has whatever a node of its term or of an earlier one knows to be committed, for
\* any odd number of nodes, any number of entries, elections and restarts: the comparison of
\* logs in RequestVote keeps everybody else out.
THEOREM LeadersComplete == OrderlyNetwork /\ Spec => []LeaderCompleteness
BY CommitInvariant, SecureComplete, PTL

\* What updateCommitIndex has counted stays on a majority.
THEOREM CommitsOnMajority == OrderlyNetwork /\ Spec => []CommittedOnMajority
BY CommitInvariant, SecureOnMajority, PTL

\* No two services are given different commands for the same index.
THEOREM ServicesAgree == OrderlyNetwork /\ Spec => []StateMachineSafety
BY CommitInvariant, SecureServices, PTL

\* AppendEntries cuts nothing off that its node knows to be committed, although it cuts
\* rf.log after PrevLogIndex without looking at commitIndex.
THEOREM CommitsStay == OrderlyNetwork /\ Spec => CommittedStable
<1> SUFFICES ASSUME OrderlyNetwork PROVE Spec => [][CommittedStay]_vars
    BY DEF CommittedStable, CommittedStay
<1>1. CommitInv /\ [Next]_vars => [CommittedStay]_vars
    BY CommittedStayStep
<1> QED BY <1>1, CommitInvariant, PTL DEF Spec

=============================================================================
