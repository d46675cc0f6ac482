---------------------------- MODULE RaftLogProof ----------------------------
(***************************************************************************)
(* Logs match, when a restarted node finds what Save wrote, whatever is    *)
(* compacted, lost or reordered.  MatchingInv is the inductive invariant.  *)
(* Its parts are about chains, the stretches of log that nodes hold and    *)
(* AppendEntries calls carry.  A step adds at most one chain, and there    *)
(* are four ways to make one: a part of a leader's log goes into a call or *)
(* survives compaction (SuffixAgrees), a call is joined to a follower's    *)
(* log (JoinAgrees), a snapshot leaves only a base (BareAgrees), and a     *)
(* leader appends an entry (ExtensionAgrees).  The last needs that nobody  *)
(* has an entry of the leader's term beyond the leader's log, which rests  *)
(* on there being one leader per term, for ever.                           *)
(***************************************************************************)
EXTENDS RaftProof

-----------------------------------------------------------------------------
(* Chains. *)

IsChain(c) == c.base \in Int /\ c.last \in Int

LEMMA AgreeSymmetric ==
    ASSUME NEW c, NEW d, Agree(c, d)
    PROVE  Agree(d, c)
BY DEF Agree

LEMMA AgreeSelf == \A c : Agree(c, c)
BY DEF Agree

\* The end of a chain, with the term before it.
LEMMA SuffixAgrees ==
    ASSUME NEW c, NEW d, NEW new, IsChain(c), IsChain(d), IsChain(new), Agree(c, d),
           new.base \in Span(c), new.last = c.last,
           \A n \in Span(new) : new.at[n].term = c.at[n].term,
           \A n \in Owned(new) : new.at[n] = c.at[n]
    PROVE  Agree(new, d)
<1> SUFFICES ASSUME NEW n \in Span(new) \cap Span(d), new.at[n].term = d.at[n].term,
                    NEW k \in Span(new) \cap Span(d), k <= n
             PROVE  /\ new.at[k].term = d.at[k].term
                    /\ k \in Owned(new) \cap Owned(d) => new.at[k] = d.at[k]
    BY DEF Agree
<1>1. n \in Span(c) /\ k \in Span(c) /\ (k \in Owned(new) => k \in Owned(c))
    BY DEF Span, Owned, IsChain
<1>2. /\ c.at[k].term = d.at[k].term
      /\ k \in Owned(c) \cap Owned(d) => c.at[k] = d.at[k]
    BY <1>1 DEF Agree
<1> QED BY <1>1, <1>2

\* What InstallSnapshot and compaction beyond the log leave.
LEMMA BareAgrees ==
    ASSUME NEW c, NEW d, IsChain(c), IsChain(d), c.last <= c.base
    PROVE  Agree(c, d)
BY DEF Agree, Span, Owned, IsChain

\* A call joined to the log it matches.
LEMMA JoinAgrees ==
    ASSUME NEW c, NEW m, NEW d, NEW new, IsChain(c), IsChain(m), IsChain(d), IsChain(new),
           Agree(c, d), Agree(m, d),
           m.base \in Span(c), m.base <= m.last, c.at[m.base].term = m.at[m.base].term,
           new.base = c.base, new.last = m.last,
           \A n \in Span(new) :
               new.at[n].term = IF n <= m.base THEN c.at[n].term ELSE m.at[n].term,
           \A n \in Owned(new) : new.at[n] = IF n <= m.base THEN c.at[n] ELSE m.at[n]
    PROVE  Agree(new, d)
<1> SUFFICES ASSUME NEW n \in Span(new) \cap Span(d), new.at[n].term = d.at[n].term,
                    NEW k \in Span(new) \cap Span(d), k <= n
             PROVE  /\ new.at[k].term = d.at[k].term
                    /\ k \in Owned(new) \cap Owned(d) => new.at[k] = d.at[k]
    BY DEF Agree
<1>1. /\ n \in Int /\ k \in Int /\ m.base \in Int
      /\ n \in Span(d) /\ k \in Span(d)
      /\ n <= m.base => n \in Span(c)
      /\ k <= m.base => k \in Span(c)
      /\ k <= m.base /\ k \in Owned(new) => k \in Owned(c)
      /\ n > m.base => n \in Span(m)
      /\ k > m.base => k \in Span(m) /\ k \in Owned(m)
    BY DEF Span, Owned, IsChain
<1>0. /\ new.at[n].term = IF n <= m.base THEN c.at[n].term ELSE m.at[n].term
      /\ new.at[k].term = IF k <= m.base THEN c.at[k].term ELSE m.at[k].term
      /\ k \in Owned(new) => new.at[k] = IF k <= m.base THEN c.at[k] ELSE m.at[k]
    OBVIOUS
<1>2. CASE n <= m.base
    <2>1. c.at[n].term = d.at[n].term /\ k <= m.base
        BY <1>0, <1>1, <1>2
    <2>2. /\ c.at[k].term = d.at[k].term
          /\ k \in Owned(c) \cap Owned(d) => c.at[k] = d.at[k]
        BY <1>0, <1>1, <1>2, <2>1 DEF Agree
    <2> QED BY <1>0, <1>1, <2>1, <2>2
<1>3. CASE n > m.base /\ k > m.base
    <2>1. m.at[n].term = d.at[n].term
        BY <1>0, <1>1, <1>3
    <2>2. /\ m.at[k].term = d.at[k].term
          /\ k \in Owned(m) \cap Owned(d) => m.at[k] = d.at[k]
        BY <1>0, <1>1, <1>3, <2>1 DEF Agree
    <2> QED BY <1>0, <1>1, <1>3, <2>2
\* The two chains have the term before the new entries in common, and agree below it.
<1>4. CASE n > m.base /\ k <= m.base
    <2>1. m.at[n].term = d.at[n].term
        BY <1>0, <1>1, <1>4
    <2>2. m.base \in Span(m) /\ m.base \in Span(d) /\ m.base <= n
        BY <1>0, <1>1, <1>4 DEF Span, IsChain
    <2>3. m.at[m.base].term = d.at[m.base].term
        BY <1>0, <1>1, <1>4, <2>1, <2>2 DEF Agree
    <2>4. c.at[m.base].term = d.at[m.base].term
        BY <2>3
    <2>5. /\ c.at[k].term = d.at[k].term
          /\ k \in Owned(c) \cap Owned(d) => c.at[k] = d.at[k]
        BY <1>0, <1>1, <1>4, <2>2, <2>4 DEF Agree
    <2> QED BY <1>0, <1>1, <1>4, <2>5
<1> QED BY <1>0, <1>1, <1>2, <1>3, <1>4

\* A chain with one more entry, of a term the other has not at that index.
LEMMA ExtensionAgrees ==
    ASSUME NEW c, NEW d, NEW new, IsChain(c), IsChain(d), IsChain(new), Agree(c, d),
           new.base = c.base, new.last = c.last + 1,
           \A n \in Span(c) : new.at[n].term = c.at[n].term,
           \A n \in Owned(c) : new.at[n] = c.at[n],
           new.last \in Owned(d) => d.at[new.last].term # new.at[new.last].term
    PROVE  Agree(new, d)
<1> SUFFICES ASSUME NEW n \in Span(new) \cap Span(d), new.at[n].term = d.at[n].term,
                    NEW k \in Span(new) \cap Span(d), k <= n
             PROVE  /\ new.at[k].term = d.at[k].term
                    /\ k \in Owned(new) \cap Owned(d) => new.at[k] = d.at[k]
    BY DEF Agree
<1>1. CASE n \in Span(c)
    <2>1. k \in Span(c) /\ (k \in Owned(new) => k \in Owned(c))
        BY <1>1 DEF Span, Owned, IsChain
    <2>2. /\ c.at[k].term = d.at[k].term
          /\ k \in Owned(c) \cap Owned(d) => c.at[k] = d.at[k]
        BY <1>1, <2>1 DEF Agree
    <2> QED BY <2>1, <2>2
<1>2. CASE n \notin Span(c)
    <2>1. n = new.last /\ n \notin Owned(d)
        BY <1>2 DEF Span, IsChain
    <2>2. n = d.base /\ k = d.base
        BY <2>1 DEF Span, Owned, IsChain
    <2> QED BY <2>1, <2>2
<1> QED BY <1>1, <1>2

LastIndexNat == \A i \in Node : LastLogIndex(i) \in Nat

LEMMA LastIndexType == TypeOK => LastIndexNat
<1> SUFFICES ASSUME TypeOK, NEW i \in Node PROVE LastLogIndex(i) \in Nat
    BY DEF LastIndexNat
<1> QED BY EntryTypes

LEMMA HeldEntry ==
    ASSUME TypeOK, NEW i \in Node, NEW n \in Held(i)
    PROVE  /\ n - lastIncludedIndex[i] + 1 \in 2 .. Len(log[i])
           /\ EntryAt(i, n) \in Entry
<1>1. lastIncludedIndex[i] \in Nat /\ Len(log[i]) \in Nat
    BY EntryTypes DEF TypeOK
<1>2. n - lastIncludedIndex[i] + 1 \in 2 .. Len(log[i])
    BY <1>1 DEF Held, LastLogIndex
<1>3. n - lastIncludedIndex[i] + 1 \in 1 .. Len(log[i])
    BY <1>1, <1>2
<1> QED BY <1>2, <1>3, EntryTypes DEF EntryAt

LogChainIs(i) ==
    /\ LogChain(i) \in Chains
    /\ IsChain(LogChain(i))
    /\ LogChain(i).base = lastIncludedIndex[i]
    /\ LogChain(i).last = LastLogIndex(i)
    /\ lastIncludedIndex[i] <= LastLogIndex(i)
    /\ LogChain(i).at[lastIncludedIndex[i]].term = lastIncludedTerm[i]
    /\ Owned(LogChain(i)) = Held(i)
    /\ \A n \in Held(i) : LogChain(i).at[n] = EntryAt(i, n)

LogChainsAre == \A i \in Node : LogChainIs(i)

LEMMA LogChains == TypeOK => LogChainsAre
<1> SUFFICES ASSUME TypeOK, NEW i \in Node PROVE LogChainIs(i)
    BY DEF LogChainsAre
<1>1. /\ lastIncludedIndex[i] \in Nat /\ LastLogIndex(i) \in Nat
      /\ lastIncludedIndex[i] <= LastLogIndex(i)
    <2>1. lastIncludedIndex[i] \in Nat /\ LastLogIndex(i) \in Nat /\ Len(log[i]) \in Nat \ {0}
        BY EntryTypes DEF TypeOK
    <2> QED BY <2>1 DEF LastLogIndex
<1>2. LogChain(i).at = [n \in lastIncludedIndex[i] .. LastLogIndex(i) |->
                           IF n = lastIncludedIndex[i] THEN Dummy(lastIncludedTerm[i])
                           ELSE EntryAt(i, n)]
    BY DEF LogChain
<1>3. LogChain(i).base = lastIncludedIndex[i] /\ LogChain(i).last = LastLogIndex(i)
    BY DEF LogChain
<1>4. LogChain(i).at[lastIncludedIndex[i]] = Dummy(lastIncludedTerm[i])
    BY <1>1, <1>2
<1>5. ASSUME NEW n \in Held(i) PROVE LogChain(i).at[n] = EntryAt(i, n)
    <2>1. n \in lastIncludedIndex[i] .. LastLogIndex(i) /\ n # lastIncludedIndex[i]
        BY <1>1 DEF Held
    <2> QED BY <1>2, <2>1
<1> QED BY <1>1, <1>3, <1>4, <1>5 DEF LogChainIs, IsChain, Owned, Held, Chains, Dummy

LEMMA CallChainIs ==
    ASSUME NEW m \in AppendEntriesRpc
    PROVE  /\ IsChain(CallChain(m))
           /\ CallChain(m).base = m.prevLogIndex
           /\ CallChain(m).last = m.prevLogIndex + Len(m.entries)
           /\ m.prevLogIndex \in Nat /\ Len(m.entries) \in Nat
           /\ CallChain(m).at[m.prevLogIndex].term = m.prevLogTerm
           /\ \A n \in Owned(CallChain(m)) : CallChain(m).at[n] = m.entries[n - m.prevLogIndex]
<1> DEFINE last == m.prevLogIndex + Len(m.entries)
<1>1. m.prevLogIndex \in Nat /\ Len(m.entries) \in Nat
    <2>1. m.prevLogIndex \in Nat /\ m.entries \in Seq(Entry)
        BY DEF AppendEntriesRpc
    <2> QED BY <2>1, LenProperties
<1>2. /\ CallChain(m).base = m.prevLogIndex
      /\ CallChain(m).last = last
      /\ CallChain(m).at = [n \in m.prevLogIndex .. last |->
                               IF n = m.prevLogIndex THEN Dummy(m.prevLogTerm)
                               ELSE m.entries[n - m.prevLogIndex]]
    BY DEF CallChain
<1>3. CallChain(m).at[m.prevLogIndex] = Dummy(m.prevLogTerm)
    BY <1>1, <1>2
<1>4. ASSUME NEW n \in Owned(CallChain(m))
      PROVE  CallChain(m).at[n] = m.entries[n - m.prevLogIndex]
    <2>1. n \in m.prevLogIndex .. last /\ n # m.prevLogIndex
        BY <1>1, <1>2 DEF Owned
    <2> QED BY <1>2, <2>1
<1>5. last \in Int
    BY <1>1
<1>6. IsChain(CallChain(m))
    BY <1>1, <1>2, <1>5 DEF IsChain
<1>7. CallChain(m).at[m.prevLogIndex].term = m.prevLogTerm
    BY <1>3 DEF Dummy
<1> QED BY <1>1, <1>2, <1>4, <1>6, <1>7

LEMMA ChainsAreChains ==
    ASSUME TypeOK, NEW c \in Chains
    PROVE  IsChain(c) /\ \A n \in Owned(c) : c.at[n] \in Entry
<1>1. ASSUME NEW m \in Calls, c = CallChain(m)
      PROVE  IsChain(c) /\ \A n \in Owned(c) : c.at[n] \in Entry
    <2>1. m \in AppendEntriesRpc
        BY RpcTypes DEF Calls, TypeOK
    <2>2. m.entries \in Seq(Entry) /\ Len(m.entries) \in Nat
        BY <2>1, LenProperties DEF AppendEntriesRpc
    <2>3. ASSUME NEW n \in Owned(c) PROVE c.at[n] \in Entry
        <3>1. n - m.prevLogIndex \in 1 .. Len(m.entries)
            BY <1>1, <2>1, CallChainIs DEF Owned
        <3>2. c.at[n] = m.entries[n - m.prevLogIndex]
            BY <1>1, <2>1, CallChainIs
        <3> QED BY <2>2, <3>1, <3>2, ElementOfSeq
    <2> QED BY <1>1, <2>1, <2>3, CallChainIs
<1>2. ASSUME NEW i \in Node, c = LogChain(i)
      PROVE  IsChain(c) /\ \A n \in Owned(c) : c.at[n] \in Entry
    <2>1. ASSUME NEW n \in Owned(c) PROVE c.at[n] \in Entry
        <3>1. n \in Held(i) /\ c.at[n] = EntryAt(i, n)
            BY <1>2, LogChains DEF LogChainIs, LogChainsAre
        <3> QED BY <3>1, HeldEntry
    <2> QED BY <1>2, <2>1, LogChains DEF LogChainIs, LogChainsAre
<1> QED BY <1>1, <1>2 DEF Chains

\* The end of c, with the term before it.
SuffixOf(new, c) ==
    /\ IsChain(new)
    /\ new.base \in Span(c) /\ new.last = c.last
    /\ \A n \in Span(new) : new.at[n].term = c.at[n].term
    /\ \A n \in Owned(new) : n \in Owned(c) /\ new.at[n] = c.at[n]

\* c up to the base of m, and then m.
JoinOf(new, c, m) ==
    /\ IsChain(new)
    /\ m.base \in Span(c) /\ m.base <= m.last
    /\ c.at[m.base].term = m.at[m.base].term
    /\ new.base = c.base /\ new.last = m.last
    /\ \A n \in Span(new) : new.at[n].term = IF n <= m.base THEN c.at[n].term ELSE m.at[n].term
    /\ \A n \in Owned(new) : new.at[n] = IF n <= m.base THEN c.at[n] ELSE m.at[n]

\* c with one more entry.
ExtensionOf(new, c, e) ==
    /\ IsChain(new)
    /\ new.base = c.base /\ new.last = c.last + 1
    /\ \A n \in Span(c) : new.at[n].term = c.at[n].term
    /\ \A n \in Owned(c) : new.at[n] = c.at[n]
    /\ new.at[new.last] = e

-----------------------------------------------------------------------------
(* One leader per term, for ever. *)

\* Where a step's candidates and leaders come from, and the votes they have.
RolesTraced ==
    \A k \in Node :
        state'[k] # "Follower" =>
            \/ currentTerm'[k] > currentTerm[k]
            \/ currentTerm'[k] = currentTerm[k] /\ state[k] \in {"Candidate", state'[k]}

VotesTraced ==
    \A k \in Node : Campaigning(k)' => \A j \in votes'[k] :
        \/ Campaigning(k) /\ currentTerm'[k] = currentTerm[k] /\ j \in votes[k]
        \/ j = k /\ currentTerm'[k] > currentTerm[k]
        \/ \E m \in rpcs : Grant(m) /\ m.to = j /\ m.from = k /\ m.term = currentTerm'[k]

GrantsTraced ==
    \A m \in rpcs' : Grant(m) =>
        m \in rpcs \/ (m.term = currentTerm'[m.to] /\ votedFor'[m.to] = m.from)

Traced == RolesTraced /\ VotesTraced /\ GrantsTraced

LEMMA QuietStepTraced ==
    ASSUME TypeOK, TypeOK', QuietStep
    PROVE  Traced
<1>1. \A k \in Node : state'[k] # "Follower" => Campaigning(k)'
    BY DEF TypeOK, Campaigning
<1>2. RolesTraced
    BY <1>1 DEF QuietStep, CampaignKept, RolesTraced
<1>3. VotesTraced
    BY DEF QuietStep, CampaignKept, VotesTraced, Campaigning
<1>4. GrantsTraced
    BY DEF QuietStep, NoNewGrant, GrantsTraced
<1> QED BY <1>2, <1>3, <1>4 DEF Traced

LEMMA ElectionTimeoutTraced ==
    ASSUME TypeOK, TypeOK', NEW i \in Node, ElectionTimeout(i)
    PROVE  Traced
<1>1. /\ currentTerm' = [currentTerm EXCEPT ![i] = currentTerm[i] + 1]
      /\ votes' = [votes EXCEPT ![i] = {i}]
      /\ \E role : state' = [state EXCEPT ![i] = role]
    BY DEF ElectionTimeout, BecomeLeader
<1>2. currentTerm'[i] > currentTerm[i] /\ votes'[i] = {i}
    BY <1>1 DEF TypeOK
<1>3. \A k \in Node \ {i} : /\ currentTerm'[k] = currentTerm[k]
                           /\ votes'[k] = votes[k]
                           /\ state'[k] = state[k]
    BY <1>1 DEF TypeOK
<1>4. RolesTraced
    BY <1>2, <1>3 DEF RolesTraced
<1>5. VotesTraced
    BY <1>2, <1>3 DEF VotesTraced, Campaigning
<1>6. NoNewGrant
    <2>1. \A j : ~Grant(RequestVoteCall(i, j))
        BY DEF RequestVoteCall, Grant
    <2>2. rpcs' = rpcs => NoNewGrant
        BY DEF NoNewGrant
    <2>3. \A peers : Send({RequestVoteCall(i, j) : j \in peers}) => NoNewGrant
        BY <2>1, SendNoGrant
    <2> QED BY <2>2, <2>3 DEF ElectionTimeout
<1> QED BY <1>4, <1>5, <1>6 DEF Traced, GrantsTraced, NoNewGrant

LEMMA HandleRequestVoteTraced ==
    ASSUME TypeOK, TypeOK', NEW m \in rpcs, HandleRequestVote(m)
    PROVE  Traced
<1> DEFINE i == m.to
           granted == MayGrant(m, i)
           r == RequestVoteReply(m, m.term, granted)
<1>1. /\ m.term >= currentTerm[i]
      /\ state' = [state EXCEPT ![i] = IF m.term > currentTerm[i] THEN "Follower" ELSE @]
      /\ currentTerm' = [currentTerm EXCEPT ![i] = m.term]
      /\ votedFor' = [votedFor EXCEPT ![i] = IF granted THEN m.from ELSE VoteIn(m, i)]
      /\ rpcs' = (rpcs \ {m}) \cup {x \in {r} : m.live}
      /\ UNCHANGED votes
      /\ m.type = "RequestVote"
    BY DEF HandleRequestVote, Respond
<1>2. m \in RequestVoteRpc
    BY <1>1, RpcTypes DEF TypeOK
<1>3. i \in Node /\ m.term \in Nat
    BY <1>2 DEF RequestVoteRpc
<1>4. /\ r.to = i /\ r.from = m.from /\ r.term = m.term /\ r.voteGranted = granted
    BY DEF RequestVoteReply
<1> HIDE DEF i, granted, r
<1>5. /\ currentTerm'[i] = m.term
      /\ votedFor'[i] = IF granted THEN m.from ELSE VoteIn(m, i)
      /\ state'[i] = IF m.term > currentTerm[i] THEN "Follower" ELSE state[i]
      /\ currentTerm[i] \in Nat
    BY <1>1, <1>3 DEF TypeOK
<1>6. \A k \in Node \ {i} : state'[k] = state[k] /\ currentTerm'[k] = currentTerm[k]
    BY <1>1 DEF TypeOK
<1>7. state'[i] # "Follower" => state'[i] = state[i] /\ currentTerm'[i] = currentTerm[i]
    BY <1>1, <1>3, <1>5
<1>8. RolesTraced
    BY <1>6, <1>7 DEF RolesTraced
<1>9. VotesTraced
    BY <1>1, <1>6, <1>7 DEF VotesTraced, Campaigning
<1>10. GrantsTraced
    <2> SUFFICES ASSUME NEW n \in rpcs', Grant(n), n \notin rpcs
                 PROVE  n.term = currentTerm'[n.to] /\ votedFor'[n.to] = n.from
        BY DEF GrantsTraced
    <2>1. n = r
        BY <1>1
    <2>2. granted
        BY <1>4, <2>1 DEF Grant
    <2> QED BY <1>4, <1>5, <2>1, <2>2
<1> QED BY <1>8, <1>9, <1>10 DEF Traced

LEMMA HandleRequestVoteReplyTraced ==
    ASSUME TypeOK, TypeOK', NEW m \in rpcs, HandleRequestVoteReply(m)
    PROVE  Traced
<1> DEFINE i == m.from
           ballot == votes[i] \cup {m.to}
           counted == state[i] = "Candidate" /\ m.term = currentTerm[i] /\ m.voteGranted
<1>1. /\ m.type = "RequestVoteReply"
      /\ UNCHANGED persistentVars
      /\ rpcs' = rpcs \ {m}
      /\ \/ /\ counted
            /\ votes' = [votes EXCEPT ![i] = ballot]
            /\ \/ state' = [state EXCEPT ![i] = "Leader"]
               \/ UNCHANGED state
         \/ UNCHANGED <<state, votes>>
    BY DEF HandleRequestVoteReply, Done, BecomeLeader
<1>2. i \in Node /\ currentTerm' = currentTerm
    BY <1>1, RpcTypes DEF TypeOK, persistentVars
<1>3. GrantsTraced
    BY <1>1 DEF GrantsTraced
<1>4. CASE UNCHANGED <<state, votes>>
    <2>1. RolesTraced
        BY <1>2, <1>4 DEF RolesTraced
    <2>2. VotesTraced
        BY <1>2, <1>4 DEF VotesTraced, Campaigning
    <2> QED BY <1>3, <2>1, <2>2 DEF Traced
<1>5. CASE /\ counted
           /\ votes' = [votes EXCEPT ![i] = ballot]
           /\ \/ state' = [state EXCEPT ![i] = "Leader"]
              \/ UNCHANGED state
    <2>1. /\ state[i] = "Candidate" /\ Campaigning(i)
          /\ Grant(m) /\ m.term = currentTerm'[i] /\ m.from = i
        BY <1>1, <1>2, <1>5 DEF Grant, Campaigning
    <2>2. votes'[i] = votes[i] \cup {m.to}
        BY <1>2, <1>5 DEF TypeOK
    <2> HIDE DEF i, ballot, counted
    <2>3. \A k \in Node \ {i} : votes'[k] = votes[k] /\ state'[k] = state[k]
        <3>1. \A k \in Node \ {i} : votes'[k] = votes[k]
            BY <1>5 DEF TypeOK
        <3>2. CASE UNCHANGED state
            BY <3>1, <3>2
        <3>3. CASE state' = [state EXCEPT ![i] = "Leader"]
            BY <3>1, <3>3 DEF TypeOK
        <3> QED BY <1>5, <3>2, <3>3
    <2>4. RolesTraced
        BY <1>2, <2>1, <2>3 DEF RolesTraced
    <2>5. VotesTraced
        <3> SUFFICES ASSUME NEW k \in Node, Campaigning(k)', NEW j \in votes'[k]
                     PROVE  \/ Campaigning(k) /\ j \in votes[k]
                            \/ \E n \in rpcs : /\ Grant(n) /\ n.to = j /\ n.from = k
                                              /\ n.term = currentTerm'[k]
            BY <1>2 DEF VotesTraced
        <3>1. CASE k = i
            BY <2>1, <2>2, <3>1
        <3>2. CASE k # i
            BY <2>3, <3>2 DEF Campaigning
        <3> QED BY <3>1, <3>2
    <2> QED BY <1>3, <2>4, <2>5 DEF Traced
<1> QED BY <1>1, <1>4, <1>5

LEMMA StepTraced ==
    ASSUME StorageSurvives, ElectionInv, [Next]_vars
    PROVE  Traced
<1>1. TypeOK /\ Durable /\ ElectionParts
    BY DEF ElectionInv, ElectionParts
<1>2. TypeOK'
    BY <1>1, TypeStep
<1>3. QuietStep => Traced
    BY <1>1, <1>2, QuietStepTraced
<1>4. ASSUME NEW i \in Node, NodeStep(i) PROVE Traced
    <2>1. CASE ElectionTimeout(i)
        BY <1>1, <1>2, <2>1, ElectionTimeoutTraced
    <2>2. CASE Restart(i)
        BY <1>1, <1>3, <2>2, RestartQuiet
    <2>3. CASE ~ElectionTimeout(i) /\ ~Restart(i)
        BY <1>1, <1>3, <1>4, <2>3, NodeStepQuiet DEF NodeStep
    <2> QED BY <2>1, <2>2, <2>3
<1>5. ASSUME NEW m \in rpcs, CallStep(m) PROVE Traced
    <2>1. CASE HandleRequestVote(m)
        BY <1>1, <1>2, <2>1, HandleRequestVoteTraced
    <2>2. CASE HandleRequestVoteReply(m)
        BY <1>1, <1>2, <2>2, HandleRequestVoteReplyTraced
    <2>3. CASE ~HandleRequestVote(m) /\ ~HandleRequestVoteReply(m)
        BY <1>1, <1>3, <1>5, <2>3, CallStepQuiet DEF CallStep
    <2> QED BY <2>1, <2>2, <2>3
<1>6. CASE UNCHANGED vars
    <2>1. QuietStep
        BY <1>1, <1>6, StillKeepsVotes DEF vars, persistentVars, roleVars, QuietStep, CampaignKept,
                                           NoNewGrant
    <2> QED BY <1>3, <2>1
<1> QED BY <1>4, <1>5, <1>6 DEF Next

\* A pledge is for ever.
LEMMA PledgeKept ==
    ASSUME TypeOK, TypeOK', VoteKept, Traced,
           NEW j \in Node, NEW i \in Node, NEW t \in Nat, Pledged(j, i, t)
    PROVE  Pledged(j, i, t)'
<1>1. Remembers(j, i, t) /\ Remembers(j, i, t)'
    BY StandsByVote DEF Pledged
<1>2. ASSUME NEW k \in Node, Campaigning(k)', currentTerm'[k] = t, j \in votes'[k]
      PROVE  k = i
    <2>1. CASE Campaigning(k) /\ currentTerm'[k] = currentTerm[k] /\ j \in votes[k]
        BY <1>2, <2>1 DEF Pledged
    <2>2. CASE j = k /\ currentTerm'[k] > currentTerm[k]
        <3>1. t <= currentTerm[k] /\ currentTerm[k] \in Nat
            BY <1>1, <2>2 DEF Remembers, TypeOK
        <3> QED BY <1>2, <2>2, <3>1
    <2>3. CASE \E m \in rpcs : Grant(m) /\ m.to = j /\ m.from = k /\ m.term = currentTerm'[k]
        BY <1>2, <2>3 DEF Pledged
    <2> QED BY <1>2, <2>1, <2>2, <2>3 DEF Traced, VotesTraced
<1>3. ASSUME NEW m \in rpcs', Grant(m), m.to = j, m.term = t
      PROVE  m.from = i
    <2>1. CASE m \in rpcs
        BY <1>3, <2>1 DEF Pledged
    <2>2. CASE m.term = currentTerm'[m.to] /\ votedFor'[m.to] = m.from
        BY <1>1, <1>3, <2>2 DEF Remembers
    <2> QED BY <1>3, <2>1, <2>2 DEF Traced, GrantsTraced
<1> QED BY <1>1, <1>2, <1>3 DEF Pledged, Grant

LEMMA LedKept ==
    ASSUME TypeOK, TypeOK', VoteKept, Traced,
           NEW i \in Node, NEW t \in Nat, Led(i, t)
    PROVE  Led(i, t)'
<1>1. PICK Q \in SUBSET Node : IsMajority(Q) /\ \A j \in Q : Pledged(j, i, t)
    BY DEF Led
<1>2. \A j \in Q : Pledged(j, i, t)'
    BY <1>1, PledgeKept
<1>3. /\ t <= currentTerm[i] /\ currentTerm[i] <= currentTerm'[i]
      /\ currentTerm[i] \in Nat /\ currentTerm'[i] \in Nat
    BY DEF Led, VoteKept, TypeOK
<1>4. t <= currentTerm'[i]
    BY <1>3
<1>5. t = currentTerm'[i] => state'[i] # "Candidate"
    <2> SUFFICES ASSUME t = currentTerm'[i], state'[i] = "Candidate" PROVE FALSE
        OBVIOUS
    <2>1. currentTerm[i] = t
        BY <1>3
    <2>2. state[i] = "Candidate"
        BY <1>3, <2>1 DEF Traced, RolesTraced
    <2> QED BY <2>1, <2>2 DEF Led
<1> QED BY <1>1, <1>2, <1>4, <1>5 DEF Led, IsMajority

\* A leader has led its term, ...
LEMMA LeaderLed ==
    ASSUME ElectionInv, NEW i \in Node, state[i] = "Leader"
    PROVE  Led(i, currentTerm[i])
<1>1. votes[i] \in SUBSET Node /\ IsMajority(votes[i]) /\ Campaigning(i) /\ currentTerm[i] \in Nat
    BY DEF ElectionInv, LeadersElected, Campaigning, TypeOK
<1>2. ASSUME NEW j \in votes[i] PROVE Pledged(j, i, currentTerm[i])
    <2>1. Remembers(j, i, currentTerm[i])
        BY <1>1 DEF ElectionInv, GrantsRemembered
    <2>2. \A k \in Node : Campaigning(k) /\ currentTerm[k] = currentTerm[i] /\ j \in votes[k] => k = i
        BY <1>1 DEF ElectionInv, GrantsUnique
    <2>3. \A m \in rpcs : Grant(m) /\ m.to = j /\ m.term = currentTerm[i] => m.from = i
        BY <1>1 DEF ElectionInv, GrantsUnique
    <2> QED BY <2>1, <2>2, <2>3 DEF Pledged
<1> QED BY <1>1, <1>2 DEF Led

\* ... and nobody else has.
OneLeads ==
    \A i, k \in Node : state[i] = "Leader" /\ Led(k, currentTerm[i]) => k = i

LEMMA OneLed == ElectionInv => OneLeads
<1> SUFFICES ASSUME ElectionInv, NEW i \in Node, NEW k \in Node,
                    state[i] = "Leader", Led(k, currentTerm[i])
             PROVE  k = i
    BY DEF OneLeads
<1>1. PICK Q \in SUBSET Node : IsMajority(Q) /\ \A j \in Q : Pledged(j, k, currentTerm[i])
    BY DEF Led
<1>2. votes[i] \in SUBSET Node /\ IsMajority(votes[i]) /\ Campaigning(i)
    BY DEF ElectionInv, LeadersElected, Campaigning, TypeOK
<1>3. PICK j \in Node : j \in Q /\ j \in votes[i]
    <2>1. /\ IsFiniteSet(Node) /\ Cardinality(Node) \in Nat
          /\ Cardinality(Q) \in Nat /\ Cardinality(votes[i]) \in Nat
        BY <1>1, <1>2, NodeAssumption, FS_Subset, FS_CardinalityType
    <2>2. Cardinality(Q) + Cardinality(votes[i]) > Cardinality(Node)
        BY <1>1, <1>2, <2>1 DEF IsMajority
    <2>3. Q \cap votes[i] # {}
        BY <1>1, <1>2, <2>1, <2>2, FS_MajoritiesIntersect
    <2> QED BY <1>1, <2>3
<1> QED BY <1>1, <1>2, <1>3 DEF Pledged

\* A node that a step makes leader leads a term that nobody has led.
LEMMA NewLeader ==
    ASSUME StorageSurvives, ElectionInv, [Next]_vars,
           NEW i \in Node, state'[i] = "Leader",
           ~(state[i] = "Leader" /\ currentTerm'[i] = currentTerm[i]),
           NEW k \in Node
    PROVE  ~Led(k, currentTerm'[i])
<1>1. ElectionInv' /\ VoteKept /\ Traced /\ TypeOK /\ TypeOK'
    BY InvStep, StepTraced DEF ElectionInv
<1>2. currentTerm'[i] \in Nat /\ currentTerm[i] \in Nat
    BY <1>1 DEF TypeOK
<1> SUFFICES ASSUME NEW t \in Nat, t = currentTerm'[i], Led(k, t) PROVE FALSE
    BY <1>2
<1>3. Led(k, t)'
    BY <1>1, LedKept
<1>4. k = i
    <2>1. (ElectionInv => OneLeads)'
        BY OneLed, PTL
    <2>2. \A u : u = t => Led(k, u)'
        BY <1>3
    <2>3. Led(k, currentTerm[i])'
        BY <2>2
    <2> QED BY <1>1, <2>1, <2>3 DEF OneLeads
<1>5. t <= currentTerm[i] /\ (t = currentTerm[i] => state[i] # "Candidate")
    BY <1>4 DEF Led
<1>6. \/ currentTerm'[i] > currentTerm[i]
      \/ currentTerm'[i] = currentTerm[i] /\ state[i] \in {"Candidate", "Leader"}
    BY <1>1 DEF Traced, RolesTraced
<1> QED BY <1>2, <1>5, <1>6

-----------------------------------------------------------------------------
(* What a step does to the chains. *)

MatchingParts == ChainsAgree /\ EntriesLed /\ CallsLed /\ LeaderHasLast

\* A node that stays leader of its term does not shorten its log.
LeadersGrow ==
    \A i \in Node :
        state[i] = "Leader" /\ state'[i] = "Leader" /\ currentTerm'[i] = currentTerm[i] =>
            LastLogIndex(i) <= LastLogIndex(i)'

LeaderCall(m) == m.type \in {"AppendEntries", "InstallSnapshot"}

\* A leader's call was there before the step, or its leader makes it now.
CallsTraced ==
    \A m \in rpcs' : LeaderCall(m) =>
        \/ \E k \in rpcs : LeaderCall(k) /\ k.from = m.from /\ k.to = m.to /\ k.term = m.term
        \/ /\ m.from \in Node /\ state[m.from] = "Leader"
           /\ m.from # m.to /\ m.term = currentTerm[m.from]

\* A leader has appended its entry at n.
Appended(n, t) ==
    \E i \in Node : /\ state[i] = "Leader" /\ state'[i] = "Leader"
                    /\ t = currentTerm[i] /\ currentTerm'[i] = currentTerm[i]
                    /\ n <= LastLogIndex(i)'

LEMMA KeptByNewChain ==
    ASSUME StorageSurvives, ElectionInv, MatchingParts, [Next]_vars,
           LeadersGrow, CallsTraced,
           NEW new, Chains' \subseteq Chains \cup {new},
           \A d \in Chains : Agree(new, d),
           \A n \in Owned(new) :
               \/ \E c \in Chains : n \in Owned(c) /\ c.at[n].term = new.at[n].term
               \/ Appended(n, new.at[n].term)
    PROVE  MatchingParts'
<1>1. ElectionInv' /\ VoteKept /\ Traced /\ TypeOK /\ TypeOK'
    BY InvStep, StepTraced DEF ElectionInv
<1>2. ChainsAgree'
    <2>1. ASSUME NEW c \in Chains', NEW d \in Chains' PROVE Agree(c, d)
        <3>1. CASE c \in Chains /\ d \in Chains
            BY <3>1 DEF MatchingParts, ChainsAgree
        <3>2. CASE c = new /\ d \in Chains
            BY <3>2
        <3>3. CASE c \in Chains /\ d = new
            BY <3>3, AgreeSymmetric
        <3>4. CASE c = new /\ d = new
            BY <3>4, AgreeSelf
        <3> QED BY <3>1, <3>2, <3>3, <3>4
    <2> QED BY <2>1 DEF ChainsAgree
<1>3. ASSUME NEW c \in Chains', NEW n \in Owned(c)
      PROVE  \/ \E d \in Chains : n \in Owned(d) /\ d.at[n].term = c.at[n].term
             \/ Appended(n, c.at[n].term)
    BY <1>3
<1>4. \A d \in Chains : \A n \in Owned(d) :
          /\ d.at[n].term \in Nat
          /\ \E i \in Node : Led(i, d.at[n].term)
    <2>1. \A d \in Chains : \A n \in Owned(d) : d.at[n] \in Entry
        BY <1>1, ChainsAreChains
    <2> QED BY <2>1 DEF Entry, MatchingParts, EntriesLed
<1>5. EntriesLed'
    <2>1. ASSUME NEW c \in Chains', NEW n \in Owned(c)
          PROVE  \E i \in Node : Led(i, c.at[n].term)'
        <3>1. \E i \in Node : c.at[n].term \in Nat /\ Led(i, c.at[n].term)
            <4>1. CASE \E d \in Chains : n \in Owned(d) /\ d.at[n].term = c.at[n].term
                BY <1>4, <4>1
            <4>2. CASE Appended(n, c.at[n].term)
                <5>1. PICK i \in Node : state[i] = "Leader" /\ c.at[n].term = currentTerm[i]
                    BY <4>2 DEF Appended
                <5>2. Led(i, currentTerm[i]) /\ currentTerm[i] \in Nat
                    BY <1>1, <5>1, LeaderLed DEF TypeOK
                <5> QED BY <5>1, <5>2
            <4> QED BY <1>3, <4>1, <4>2
        <3>2. PICK i \in Node : c.at[n].term \in Nat /\ Led(i, c.at[n].term)
            BY <3>1
        <3>3. Led(i, c.at[n].term)'
            BY <1>1, <3>2, LedKept
        <3> QED BY <3>3
    <2> QED BY <2>1 DEF EntriesLed, Owned
<1>6. CallsLed'
    <2> SUFFICES ASSUME NEW m \in rpcs', LeaderCall(m)
                 PROVE  m.from # m.to /\ Led(m.from, m.term)'
        BY DEF CallsLed, LeaderCall
    <2>1. m.from \in Node /\ m.term \in Nat
        BY <1>1, RpcTypes DEF LeaderCall, TypeOK, AppendEntriesRpc, InstallSnapshotRpc
    <2>2. m.from # m.to /\ Led(m.from, m.term)
        <3>1. CASE \E k \in rpcs : LeaderCall(k) /\ k.from = m.from /\ k.to = m.to /\ k.term = m.term
            <4>1. PICK k \in rpcs : LeaderCall(k) /\ k.from = m.from /\ k.to = m.to /\ k.term = m.term
                BY <3>1
            <4>2. k.from # k.to /\ Led(k.from, k.term)
                BY <4>1 DEF LeaderCall, MatchingParts, CallsLed
            <4> QED BY <4>1, <4>2
        <3>2. CASE /\ state[m.from] = "Leader"
                   /\ m.from # m.to /\ m.term = currentTerm[m.from]
            <4>1. Led(m.from, currentTerm[m.from])
                BY <2>1, <3>2, LeaderLed
            <4> QED BY <3>2, <4>1
        <3> QED BY <3>1, <3>2 DEF CallsTraced
    <2> QED BY <1>1, <2>1, <2>2, LedKept
<1>7. LeaderHasLast'
    <2>1. ASSUME NEW i \in Node, state'[i] = "Leader", NEW c \in Chains', NEW n \in Owned(c),
                 c.at[n].term = currentTerm'[i]
          PROVE  n <= LastLogIndex(i)'
        <3>1. CASE \E d \in Chains : n \in Owned(d) /\ d.at[n].term = c.at[n].term
            <4>1. PICK d \in Chains : n \in Owned(d) /\ d.at[n].term = currentTerm'[i]
                BY <2>1, <3>1
            <4>2. \E k \in Node : Led(k, currentTerm'[i])
                BY <1>4, <4>1
            <4>3. state[i] = "Leader" /\ currentTerm'[i] = currentTerm[i]
                BY <2>1, <4>2, NewLeader
            <4>4. n <= LastLogIndex(i)
                BY <4>1, <4>3 DEF MatchingParts, LeaderHasLast
            <4>5. LastLogIndex(i) <= LastLogIndex(i)'
                BY <2>1, <4>3 DEF LeadersGrow
            <4>6. /\ LastLogIndex(i) \in Int /\ LastLogIndex(i)' \in Int /\ n \in Int
                <5>1. (TypeOK => LastIndexNat)'
                    BY LastIndexType, PTL
                <5>2. IsChain(d)
                    BY <1>1, ChainsAreChains
                <5> QED BY <1>1, <4>1, <5>1, <5>2, LastIndexType DEF IsChain, Owned, LastIndexNat
            <4> QED BY <4>4, <4>5, <4>6
        <3>2. CASE Appended(n, c.at[n].term)
            <4>1. PICK k \in Node : /\ state'[k] = "Leader" /\ currentTerm'[k] = currentTerm'[i]
                                    /\ n <= LastLogIndex(k)'
                BY <2>1, <3>2 DEF Appended
            <4>2. ElectionSafety'
                <5>1. (ElectionInv => ElectionSafety)'
                    BY InvImpliesSafety, PTL
                <5> QED BY <1>1, <5>1
            <4>3. k = i
                BY <2>1, <4>1, <4>2 DEF ElectionSafety
            <4> QED BY <4>1, <4>3
        <3> QED BY <1>3, <3>1, <3>2
    <2> QED BY <2>1 DEF LeaderHasLast, Owned
<1> QED BY <1>2, <1>5, <1>6, <1>7 DEF MatchingParts

-----------------------------------------------------------------------------
(* Steps that make no chain. *)

\* m is the call k; a crash may have orphaned it.
SameCall(k, m) ==
    /\ k.type = m.type /\ k.from = m.from /\ k.to = m.to /\ k.term = m.term
    /\ m.type = "AppendEntries" => CallChain(k) = CallChain(m) /\ k.leaderCommit = m.leaderCommit

\* The step makes no call of a leader.
NoNewCall == \A m \in rpcs' : LeaderCall(m) => \E k \in rpcs : SameCall(k, m)

LEMMA NoNewCallTraced ==
    ASSUME NoNewCall
    PROVE  /\ CallsTraced
           /\ {CallChain(m) : m \in Calls'} \subseteq Chains
<1>1. CallsTraced
    BY DEF NoNewCall, SameCall, CallsTraced, LeaderCall
<1>2. ASSUME NEW m \in Calls' PROVE CallChain(m) \in Chains
    <2>1. m \in rpcs' /\ m.type = "AppendEntries"
        BY DEF Calls
    <2>2. PICK k \in rpcs : k.type = "AppendEntries" /\ CallChain(k) = CallChain(m)
        BY <2>1 DEF NoNewCall, SameCall, LeaderCall
    <2> QED BY <2>2 DEF Chains, Calls
<1> QED BY <1>1, <1>2

LEMMA FewerCalls ==
    ASSUME rpcs' \subseteq rpcs
    PROVE  NoNewCall
BY DEF NoNewCall, SameCall

LEMMA RespondNoCall ==
    ASSUME NEW m, NEW r, Respond(m, r), ~LeaderCall(r)
    PROVE  NoNewCall
BY DEF NoNewCall, SameCall, Respond

LEMMA SendNoCall ==
    ASSUME NEW new, Send(new), \A m \in new : ~LeaderCall(m)
    PROVE  NoNewCall
BY DEF NoNewCall, SameCall, Send

LEMMA CrashNoCall ==
    ASSUME TypeOK, NEW i \in Node, rpcs' = AfterCrash(i)
    PROVE  NoNewCall
<1> DEFINE orphan(k) == [k EXCEPT !.live = FALSE]
<1>1. ASSUME NEW k \in rpcs, k.type \in {"RequestVote", "AppendEntries", "InstallSnapshot",
                                         "SnapshotMsg"}
      PROVE  /\ orphan(k).type = k.type
             /\ orphan(k).from = k.from /\ orphan(k).to = k.to /\ orphan(k).term = k.term
             /\ k.type = "AppendEntries" =>
                    /\ orphan(k).prevLogIndex = k.prevLogIndex
                    /\ orphan(k).prevLogTerm = k.prevLogTerm
                    /\ orphan(k).entries = k.entries
                    /\ orphan(k).leaderCommit = k.leaderCommit
    <2>1. k \in Rpc
        BY DEF TypeOK
    <2> QED BY <1>1, <2>1, RpcTypes DEF RequestVoteRpc, AppendEntriesRpc, InstallSnapshotRpc,
                                        SnapshotMsgRpc
<1> HIDE DEF orphan
<1>2. \A m \in rpcs' :
          \/ m \in rpcs
          \/ \E k \in rpcs : /\ k.type \in {"RequestVote", "AppendEntries",
                                            "InstallSnapshot", "SnapshotMsg"}
                             /\ m = orphan(k)
    BY DEF AfterCrash, orphan
<1>3. ASSUME NEW m \in rpcs', LeaderCall(m)
      PROVE  \E k \in rpcs : SameCall(k, m)
    <2>1. CASE m \in rpcs
        BY <2>1 DEF SameCall
    <2>2. CASE \E k \in rpcs : /\ k.type \in {"RequestVote", "AppendEntries",
                                              "InstallSnapshot", "SnapshotMsg"}
                               /\ m = orphan(k)
        <3>1. PICK k \in rpcs : /\ k.type \in {"RequestVote", "AppendEntries",
                                                "InstallSnapshot", "SnapshotMsg"}
                                /\ m = orphan(k)
            BY <2>2
        <3>2. /\ m.type = k.type /\ m.from = k.from /\ m.to = k.to /\ m.term = k.term
              /\ k.type = "AppendEntries" =>
                    /\ m.prevLogIndex = k.prevLogIndex
                    /\ m.prevLogTerm = k.prevLogTerm
                    /\ m.entries = k.entries
                    /\ m.leaderCommit = k.leaderCommit
            BY <1>1, <3>1
        <3>3. m.type = "AppendEntries" => CallChain(k) = CallChain(m)
            BY <3>2 DEF CallChain
        <3> QED BY <3>2, <3>3 DEF SameCall
    <2> QED BY <1>2, <2>1, <2>2
<1> QED BY <1>3 DEF NoNewCall

LEMMA KeptByQuietChains ==
    ASSUME StorageSurvives, ElectionInv, MatchingParts, [Next]_vars,
           UNCHANGED <<log, lastIncludedIndex, lastIncludedTerm>>, NoNewCall
    PROVE  MatchingParts'
<1>1. TypeOK
    BY DEF ElectionInv
<1>2. \A i \in Node : LogChain(i)' = LogChain(i) /\ LastLogIndex(i)' = LastLogIndex(i)
    BY DEF LogChain, LastLogIndex, EntryAt
<1>3. Chains' \subseteq Chains
    BY <1>2, NoNewCallTraced DEF Chains, Calls, CallChain
<1>4. LeadersGrow
    BY <1>1, <1>2, LastIndexType DEF LeadersGrow, LastIndexNat
<1>5. CallsTraced
    BY NoNewCallTraced
<1>6. PICK c : c \in Chains
    <2>1. PICK i \in Node : TRUE
        BY NodeAssumption
    <2> QED BY <2>1 DEF Chains
<1>7. \A d \in Chains : Agree(c, d)
    BY <1>6 DEF MatchingParts, ChainsAgree
<1> QED BY <1>3, <1>4, <1>5, <1>6, <1>7, KeptByNewChain

LEMMA KeptByNewLog ==
    ASSUME StorageSurvives, ElectionInv, MatchingParts, [Next]_vars, NoNewCall, NEW i \in Node,
           \A j \in Node \ {i} : /\ log'[j] = log[j]
                                /\ lastIncludedIndex'[j] = lastIncludedIndex[j]
                                /\ lastIncludedTerm'[j] = lastIncludedTerm[j],
           state[i] = "Leader" /\ state'[i] = "Leader" /\ currentTerm'[i] = currentTerm[i] =>
               LastLogIndex(i) <= LastLogIndex(i)',
           NEW new, new = LogChain(i)',
           \A d \in Chains : Agree(new, d),
           \A n \in Owned(new) :
               \/ \E c \in Chains : n \in Owned(c) /\ c.at[n].term = new.at[n].term
               \/ Appended(n, new.at[n].term)
    PROVE  MatchingParts'
<1>1. TypeOK /\ TypeOK'
    BY TypeStep DEF ElectionInv
<1>2. \A j \in Node \ {i} : LogChain(j)' = LogChain(j) /\ LastLogIndex(j)' = LastLogIndex(j)
    BY DEF LogChain, LastLogIndex, EntryAt
<1>3. Chains' \subseteq Chains \cup {new}
    <2>1. \A j \in Node : LogChain(j)' \in Chains \cup {new}
        BY <1>2 DEF Chains
    <2> QED BY <2>1, NoNewCallTraced DEF Chains, CallChain
<1>4. LeadersGrow
    BY <1>1, <1>2, LastIndexType DEF LeadersGrow, LastIndexNat
<1> QED BY <1>3, <1>4, NoNewCallTraced, KeptByNewChain

LogStill == UNCHANGED <<log, lastIncludedIndex, lastIncludedTerm>>

LEMMA NodeStepStill ==
    ASSUME StorageSurvives, ElectionInv, NEW i \in Node,
           \/ ElectionTimeout(i)
           \/ QuietTick(i)
           \/ ApplierTake(i)
           \/ ServiceApply(i)
           \/ Restart(i)
    PROVE  LogStill /\ NoNewCall
<1> USE DEF persistentVars, LogStill
<1>1. TypeOK /\ Durable
    BY DEF ElectionInv
<1>2. rpcs' = rpcs => NoNewCall
    BY FewerCalls
<1>3. CASE ElectionTimeout(i)
    <2>1. \A j : ~LeaderCall(RequestVoteCall(i, j))
        BY DEF RequestVoteCall, LeaderCall
    <2>2. \A peers : Send({RequestVoteCall(i, j) : j \in peers}) => NoNewCall
        BY <2>1, SendNoCall
    <2> QED BY <1>2, <1>3, <2>2 DEF ElectionTimeout
<1>4. CASE QuietTick(i)
    BY <1>2, <1>4 DEF QuietTick
<1>5. CASE ApplierTake(i)
    BY <1>2, <1>5 DEF ApplierTake
<1>6. CASE ServiceApply(i)
    BY <1>2, <1>6 DEF ServiceApply
<1>7. CASE Restart(i)
    <2>1. /\ disk[i].log = log[i]
          /\ disk[i].lastIncludedIndex = lastIncludedIndex[i]
          /\ disk[i].lastIncludedTerm = lastIncludedTerm[i]
        <3>1. disk[i] = InMemory(i)
            BY <1>1 DEF Durable
        <3> QED BY <3>1 DEF InMemory
    <2>2. /\ log' = [log EXCEPT ![i] = disk[i].log]
          /\ lastIncludedIndex' = [lastIncludedIndex EXCEPT ![i] = disk[i].lastIncludedIndex]
          /\ lastIncludedTerm' = [lastIncludedTerm EXCEPT ![i] = disk[i].lastIncludedTerm]
          /\ rpcs' = AfterCrash(i)
        BY <1>7 DEF Restart
    <2>3. LogStill
        BY <1>1, <2>1, <2>2 DEF TypeOK
    <2> QED BY <1>1, <2>2, <2>3, CrashNoCall
<1> QED BY <1>3, <1>4, <1>5, <1>6, <1>7

LEMMA CallStepStill ==
    ASSUME TypeOK, NEW m \in rpcs,
           \/ RejectStale(m)
           \/ HandleRequestVote(m)
           \/ RejectAppendEntries(m)
           \/ HandleNewerTerm(m)
           \/ HandleRequestVoteReply(m)
           \/ HandleAppendEntriesReply(m)
           \/ HandleInstallSnapshotReply(m)
           \/ ServiceRestore(m)
           \/ Lose(m)
    PROVE  LogStill /\ NoNewCall
<1> USE DEF persistentVars, LogStill
<1>1. Done(m) => NoNewCall
    BY FewerCalls DEF Done
<1>2. CASE RejectStale(m)
    <2>1. PICK r : Respond(m, r) /\ ~LeaderCall(r)
        BY <1>2 DEF RejectStale, RequestVoteReply, AppendEntriesReply, InstallSnapshotReply,
                    LeaderCall
    <2> QED BY <1>2, <2>1, RespondNoCall DEF RejectStale
<1>3. CASE HandleRequestVote(m)
    <2>1. \A t, ok : ~LeaderCall(RequestVoteReply(m, t, ok))
        BY DEF RequestVoteReply, LeaderCall
    <2> QED BY <1>3, <2>1, RespondNoCall DEF HandleRequestVote
<1>4. CASE RejectAppendEntries(m)
    <2>1. \A t, ok, c : ~LeaderCall(AppendEntriesReply(m, t, ok, c))
        BY DEF AppendEntriesReply, LeaderCall
    <2>2. NoNewCall
        BY <1>4, <2>1, RespondNoCall DEF RejectAppendEntries
    <2> QED BY <1>4, <2>2 DEF RejectAppendEntries, HearLeader
<1>5. CASE HandleNewerTerm(m)
    BY <1>1, <1>5 DEF HandleNewerTerm, StepDown
<1>6. CASE HandleRequestVoteReply(m)
    BY <1>1, <1>6 DEF HandleRequestVoteReply
<1>7. CASE HandleAppendEntriesReply(m)
    BY <1>1, <1>7 DEF HandleAppendEntriesReply
<1>8. CASE HandleInstallSnapshotReply(m)
    BY <1>1, <1>8 DEF HandleInstallSnapshotReply
<1>9. CASE ServiceRestore(m)
    <2>1. \A t : ~LeaderCall(InstallSnapshotReply(m, t))
        BY DEF InstallSnapshotReply, LeaderCall
    <2> QED BY <1>9, <2>1, RespondNoCall DEF ServiceRestore
<1>10. CASE Lose(m)
    BY <1>1, <1>10 DEF Lose
<1> QED BY <1>2, <1>3, <1>4, <1>5, <1>6, <1>7, <1>8, <1>9, <1>10

-----------------------------------------------------------------------------
(* A leader makes a call. *)

LEMMA SentCall ==
    ASSUME TypeOK, NEW i \in Node, NEW j \in Node, SendAppendEntries(i, j),
           NEW new, new = CallChain(AppendEntriesCall(i, j))
    PROVE  \/ nextIndex[i][j] - 1 <= LastLogIndex(i) /\ SuffixOf(new, LogChain(i))
           \/ IsChain(new) /\ new.last = new.base /\ new.base > LastLogIndex(i)
<1> DEFINE call == AppendEntriesCall(i, j)
           prev == nextIndex[i][j] - 1
           c == LogChain(i)
           first == prev - lastIncludedIndex[i] + 2
<1>2. nextIndex[i][j] > lastIncludedIndex[i]
    BY DEF SendAppendEntries
<1>3. /\ prev \in Int /\ prev >= lastIncludedIndex[i] /\ prev \in Nat
      /\ lastIncludedIndex[i] \in Nat
    <2>1. nextIndex[i][j] \in Nat /\ lastIncludedIndex[i] \in Nat
        BY DEF TypeOK
    <2> QED BY <1>2, <2>1
<1>4. /\ Len(log[i]) \in Nat \ {0} /\ LastLogIndex(i) \in Nat
      /\ LastLogIndex(i) = lastIncludedIndex[i] + Len(log[i]) - 1
    BY EntryTypes DEF LastLogIndex
<1>5. LogChainIs(i)
    BY LogChains DEF LogChainsAre
<1>6. /\ call.type = "AppendEntries" /\ call.from = i /\ call.to = j
      /\ call.term = currentTerm[i] /\ call.prevLogIndex = prev
      /\ call.prevLogTerm = LogTerm(i, prev)
      /\ call.entries = SubSeq(log[i], first, Len(log[i]))
    BY DEF AppendEntriesCall
<1> HIDE DEF prev
<1>7. /\ call.entries \in Seq(Entry)
      /\ Len(call.entries) = IF first <= Len(log[i]) THEN Len(log[i]) - first + 1 ELSE 0
      /\ \A k \in 1 .. Len(log[i]) - first + 1 : call.entries[k] = log[i][first + k - 1]
    <2>1. first \in Int /\ Len(log[i]) \in Int /\ first >= 2
        BY <1>3, <1>4
    <2> HIDE DEF first, call
    <2>2. \A k \in 1 .. Len(log[i]) : log[i][k] \in Entry
        BY EntryTypes
    <2>3. \A k \in first .. Len(log[i]) : log[i][k] \in Entry
        BY <2>1, <2>2
    <2> QED BY <1>6, <2>1, <2>3, SubSeqProperties
<1>9. new = [base |-> prev, last |-> prev + Len(call.entries),
             at |-> [n \in prev .. prev + Len(call.entries) |->
                        IF n = prev THEN Dummy(LogTerm(i, prev)) ELSE call.entries[n - prev]]]
    BY <1>6 DEF CallChain
<1> HIDE DEF call
<1>10. ASSUME prev <= LastLogIndex(i) PROVE SuffixOf(new, c)
    <2> DEFINE last == LastLogIndex(i)
    <2>1. Len(call.entries) = last - prev /\ first \in Int
        BY <1>3, <1>4, <1>7, <1>10
    <2>2. new.base = prev /\ new.last = last /\ IsChain(new) /\ prev + Len(call.entries) = last
        BY <1>3, <1>4, <1>9, <2>1 DEF IsChain
    <2>3. new.at = [n \in prev .. last |->
                       IF n = prev THEN Dummy(LogTerm(i, prev)) ELSE call.entries[n - prev]]
        BY <1>9, <2>2
    <2>4. c.at[prev].term = LogTerm(i, prev)
        <3>1. CASE prev = lastIncludedIndex[i]
            BY <1>5, <3>1 DEF LogChainIs, LogTerm
        <3>2. CASE prev # lastIncludedIndex[i]
            <4>1. prev \in Held(i)
                BY <1>3, <1>4, <1>10, <3>2 DEF Held
            <4> QED BY <1>5, <3>2, <4>1 DEF LogChainIs, LogTerm
        <3> QED BY <3>1, <3>2
    <2>5. ASSUME NEW n \in (prev + 1) .. last
          PROVE  n \in Held(i) /\ new.at[n] = EntryAt(i, n) /\ c.at[n] = EntryAt(i, n)
        <3>1. n \in Held(i)
            BY <1>3, <1>4 DEF Held
        <3>2. /\ n - prev \in 1 .. Len(log[i]) - first + 1
              /\ first + (n - prev) - 1 = n - lastIncludedIndex[i] + 1
            <4>1. PICK p \in Nat, l \in Nat, len \in Nat :
                      p = prev /\ l = lastIncludedIndex[i] /\ len = Len(log[i])
                BY <1>3, <1>4
            <4>2. n \in (p + 1) .. (l + len - 1) /\ first = p - l + 2
                BY <1>4, <4>1
            <4>3. n - p \in 1 .. len - (p - l + 2) + 1 /\ (p - l + 2) + (n - p) - 1 = n - l + 1
                BY <4>2
            <4> QED BY <4>1, <4>2, <4>3
        <3>3. call.entries[n - prev] = log[i][n - lastIncludedIndex[i] + 1]
            BY <1>7, <3>2
        <3>4. n \in prev .. last /\ n # prev
            BY <1>3, <1>4
        <3>5. new.at[n] = EntryAt(i, n)
            BY <2>3, <3>3, <3>4 DEF EntryAt
        <3> QED BY <1>5, <3>1, <3>5 DEF LogChainIs
    <2>6. Owned(new) = (prev + 1) .. last /\ Span(new) = prev .. last
        BY <2>2 DEF Owned, Span
    <2>7. new.at[prev].term = c.at[prev].term
        BY <1>3, <1>4, <1>10, <2>3, <2>4 DEF Dummy
    <2>8. \A n \in Span(new) : new.at[n].term = c.at[n].term
        <3>1. \A n \in Span(new) : n = prev \/ n \in (prev + 1) .. last
            BY <1>3, <1>4, <2>6
        <3> QED BY <2>5, <2>7, <3>1
    <2>9. c \in Chains /\ IsChain(c) /\ new.last = c.last /\ new.base \in Span(c)
        BY <1>3, <1>4, <1>5, <1>10, <2>2 DEF LogChainIs, Span
    <2>10. \A n \in Owned(new) : n \in Owned(c) /\ new.at[n] = c.at[n]
        BY <1>5, <2>5, <2>6 DEF LogChainIs
    <2> QED BY <2>2, <2>8, <2>9, <2>10 DEF SuffixOf
\* Nothing is sent when the log is shorter, and the term before it is unknown.
<1>11. ASSUME prev > LastLogIndex(i)
       PROVE  IsChain(new) /\ new.last = new.base /\ new.base > LastLogIndex(i)
    <2>1. Len(call.entries) = 0
        BY <1>3, <1>4, <1>7, <1>11
    <2> QED BY <1>3, <1>9, <1>11, <2>1 DEF IsChain
<1> QED BY <1>3, <1>4, <1>10, <1>11 DEF prev

LEMMA SendAppendEntriesKeeps ==
    ASSUME StorageSurvives, ElectionInv, MatchingParts, [Next]_vars,
           NEW i \in Node, NEW j \in Node, SendAppendEntries(i, j)
    PROVE  MatchingParts'
<1> DEFINE call == AppendEntriesCall(i, j)
           c == LogChain(i)
<1>1. TypeOK
    BY DEF ElectionInv
<1>2. /\ rpcs' = rpcs \cup {call} /\ LogStill
      /\ state[i] = "Leader" /\ i # j
    BY DEF SendAppendEntries, Send, persistentVars, LogStill
<1>3. call.type = "AppendEntries" /\ call.from = i /\ call.to = j /\ call.term = currentTerm[i]
    BY DEF AppendEntriesCall
<1>4. PICK new : new = CallChain(call)
    OBVIOUS
<1>5. c \in Chains /\ IsChain(c)
    BY <1>1, LogChains DEF LogChainsAre, LogChainIs
<1>6. ASSUME NEW d \in Chains PROVE Agree(new, d)
    <2>1. IsChain(d) /\ Agree(c, d)
        BY <1>1, <1>5, ChainsAreChains DEF MatchingParts, ChainsAgree
    <2>2. CASE SuffixOf(new, c)
        BY <1>5, <2>1, <2>2, SuffixAgrees DEF SuffixOf
    <2>3. CASE IsChain(new) /\ new.last = new.base
        BY <2>1, <2>3, BareAgrees DEF IsChain
    <2> QED BY <1>1, <1>4, <2>2, <2>3, SentCall
<1>7. \A n \in Owned(new) : \E d \in Chains : n \in Owned(d) /\ d.at[n].term = new.at[n].term
    <2>1. CASE SuffixOf(new, c)
        BY <1>5, <2>1 DEF SuffixOf
    <2>2. CASE IsChain(new) /\ new.last = new.base
        <3>1. Owned(new) = {}
            BY <2>2 DEF IsChain, Owned
        <3> QED BY <3>1
    <2> QED BY <1>1, <1>4, <2>1, <2>2, SentCall
<1>8. CallsTraced
    BY <1>2, <1>3 DEF CallsTraced
<1>9. \A k \in Node : LogChain(k)' = LogChain(k) /\ LastLogIndex(k)' = LastLogIndex(k)
    BY <1>2 DEF LogStill, LogChain, LastLogIndex, EntryAt
<1>10. Chains' \subseteq Chains \cup {new}
    <2>1. \A m \in Calls' : CallChain(m) \in Chains \cup {new}
        BY <1>2, <1>4 DEF Calls, Chains
    <2>2. \A k \in Node : LogChain(k)' \in Chains
        BY <1>9 DEF Chains
    <2> QED BY <2>1, <2>2 DEF Chains, CallChain
<1>11. LeadersGrow
    BY <1>1, <1>9, LastIndexType DEF LeadersGrow, LastIndexNat
<1> QED BY <1>6, <1>7, <1>8, <1>10, <1>11, KeptByNewChain

LEMMA SendInstallSnapshotKeeps ==
    ASSUME StorageSurvives, ElectionInv, MatchingParts, [Next]_vars,
           NEW i \in Node, NEW j \in Node, SendInstallSnapshot(i, j)
    PROVE  MatchingParts'
<1> DEFINE call == InstallSnapshotCall(i, j)
<1>1. TypeOK
    BY DEF ElectionInv
<1>2. /\ rpcs' = rpcs \cup {call} /\ LogStill
      /\ state[i] = "Leader" /\ i # j
    BY DEF SendInstallSnapshot, Send, persistentVars, LogStill
<1>3. /\ call.type = "InstallSnapshot" /\ call.from = i /\ call.to = j
      /\ call.term = currentTerm[i]
    BY DEF InstallSnapshotCall
<1> HIDE DEF call
<1>4. CallsTraced
    BY <1>2, <1>3 DEF CallsTraced
<1>5. \A k \in Node : LogChain(k)' = LogChain(k) /\ LastLogIndex(k)' = LastLogIndex(k)
    BY <1>2 DEF LogStill, LogChain, LastLogIndex, EntryAt
<1>6. LogChain(i) \in Chains
    BY DEF Chains
<1>7. Chains' \subseteq Chains \cup {LogChain(i)}
    <2>1. Calls' \subseteq Calls
        BY <1>2, <1>3 DEF Calls
    <2> QED BY <1>5, <2>1 DEF Chains, CallChain
<1>8. LeadersGrow
    BY <1>1, <1>5, LastIndexType DEF LeadersGrow, LastIndexNat
<1>9. \A d \in Chains : Agree(LogChain(i), d)
    BY <1>6 DEF MatchingParts, ChainsAgree
<1> QED BY <1>4, <1>6, <1>7, <1>8, <1>9, KeptByNewChain

-----------------------------------------------------------------------------
(* A log changes. *)

OthersKeepLog(i) ==
    \A j \in Node \ {i} : /\ log'[j] = log[j]
                           /\ lastIncludedIndex'[j] = lastIncludedIndex[j]
                           /\ lastIncludedTerm'[j] = lastIncludedTerm[j]

LEMMA StartedLog ==
    ASSUME TypeOK, TypeOK', NEW i \in Node, NEW command \in Value, Start(i, command),
           NEW new, new = LogChain(i)'
    PROVE  /\ ExtensionOf(new, LogChain(i), [term |-> currentTerm[i], command |-> command])
           /\ LastLogIndex(i)' = LastLogIndex(i) + 1
           /\ OthersKeepLog(i)
<1> DEFINE e == [term |-> currentTerm[i], command |-> command]
           c == LogChain(i)
<1>2. /\ log' = [log EXCEPT ![i] = Append(log[i], e)]
      /\ UNCHANGED <<currentTerm, lastIncludedIndex, lastIncludedTerm, state, rpcs>>
      /\ state[i] = "Leader"
    BY DEF Start, roleVars
<1>3. e \in Entry /\ e.term = currentTerm[i]
    BY DEF TypeOK, Entry
<1> HIDE DEF e
<1>4. PICK last \in Nat : last = LastLogIndex(i)
    BY EntryTypes
<1>5. /\ Len(log[i]) \in Nat \ {0} /\ lastIncludedIndex[i] \in Nat
      /\ last = lastIncludedIndex[i] + Len(log[i]) - 1
    BY <1>4, EntryTypes DEF LastLogIndex, TypeOK
<1>6. /\ log'[i] = Append(log[i], e) /\ Len(log'[i]) = Len(log[i]) + 1
      /\ \A k \in 1 .. Len(log[i]) : log'[i][k] = log[i][k]
      /\ log'[i][Len(log[i]) + 1] = e
    <2>1. log'[i] = Append(log[i], e)
        BY <1>2 DEF TypeOK
    <2>2. log[i] \in Seq(Entry)
        BY DEF TypeOK, Log
    <2> QED BY <1>3, <2>1, <2>2, AppendProperties
<1>7. LastLogIndex(i)' = last + 1 /\ last \in Int
    BY <1>2, <1>5, <1>6 DEF LastLogIndex
<1>8. /\ EntryAt(i, last + 1)' = e
      /\ \A n \in Held(i) : EntryAt(i, n)' = EntryAt(i, n)
    <2>1. last + 1 - lastIncludedIndex[i] + 1 = Len(log[i]) + 1
        BY <1>5
    <2>2. EntryAt(i, last + 1)' = e
        BY <1>2, <1>5, <1>6, <2>1 DEF EntryAt
    <2>3. \A n \in Held(i) : n - lastIncludedIndex[i] + 1 \in 1 .. Len(log[i])
        BY <1>5, <1>4 DEF Held
    <2>4. \A n \in Held(i) : EntryAt(i, n)' = EntryAt(i, n)
        BY <1>2, <1>6, <2>3 DEF EntryAt
    <2> QED BY <2>2, <2>4
<1>9. LogChainIs(i) /\ LogChainIs(i)'
    <2>1. (TypeOK => LogChainsAre)'
        BY LogChains, PTL
    <2> QED BY <2>1, LogChains DEF LogChainsAre
<1>11. /\ IsChain(new) /\ new.base = lastIncludedIndex[i] /\ new.last = last + 1
       /\ new.at[lastIncludedIndex[i]].term = lastIncludedTerm[i]
       /\ Held(i)' = Held(i) \cup {last + 1}
       /\ \A n \in Held(i)' : new.at[n] = EntryAt(i, n)'
    <2>1. Held(i)' = Held(i) \cup {last + 1}
        BY <1>2, <1>5, <1>7, <1>4 DEF Held
    <2> QED BY <1>2, <1>7, <1>9, <2>1 DEF LogChainIs, IsChain
<1>12. \A n \in Span(c) : n = lastIncludedIndex[i] \/ n \in Owned(c)
    BY <1>9, <1>5 DEF LogChainIs, Span, Owned
<1>13. c \in Chains /\ IsChain(c) /\ c.base = lastIncludedIndex[i] /\ c.last = last
    BY <1>9, <1>4 DEF LogChainIs
<1>14. \A n \in Owned(c) : new.at[n] = c.at[n]
    BY <1>8, <1>9, <1>11 DEF LogChainIs
<1>15. \A n \in Span(c) : new.at[n].term = c.at[n].term
    BY <1>9, <1>11, <1>12, <1>14 DEF LogChainIs
<1>16. new.at[new.last] = e
    BY <1>8, <1>11
<1>17. \A j \in Node \ {i} : /\ log'[j] = log[j]
                            /\ lastIncludedIndex'[j] = lastIncludedIndex[j]
                            /\ lastIncludedTerm'[j] = lastIncludedTerm[j]
    BY <1>2 DEF TypeOK
<1> QED BY <1>7, <1>11, <1>13, <1>14, <1>15, <1>16, <1>17, <1>4 DEF ExtensionOf, e, OthersKeepLog

\* The leader's own log has no later entry of its term, so nobody else has one.
LEMMA StartKeeps ==
    ASSUME StorageSurvives, ElectionInv, MatchingParts, [Next]_vars,
           NEW i \in Node, NEW command \in Value, Start(i, command)
    PROVE  MatchingParts'
<1> DEFINE e == [term |-> currentTerm[i], command |-> command]
           c == LogChain(i)
<1>1. TypeOK /\ TypeOK'
    BY TypeStep DEF ElectionInv
<1>2. UNCHANGED <<currentTerm, state, rpcs>> /\ state[i] = "Leader"
    BY DEF Start, roleVars
<1>3. PICK new : new = LogChain(i)'
    OBVIOUS
<1>4. PICK last \in Nat : last = LastLogIndex(i)
    BY <1>1, EntryTypes
<1>5. /\ ExtensionOf(new, c, e)
      /\ LastLogIndex(i)' = last + 1
      /\ OthersKeepLog(i)
    BY <1>1, <1>3, <1>4, StartedLog
<1>6. c \in Chains /\ IsChain(c) /\ c.last = last
    BY <1>1, <1>4, LogChains DEF LogChainsAre, LogChainIs
<1>7. new.last = last + 1 /\ new.at[last + 1].term = currentTerm[i]
    BY <1>5, <1>6 DEF ExtensionOf
<1>8. ASSUME NEW d \in Chains PROVE Agree(new, d)
    <2>1. IsChain(d) /\ Agree(c, d)
        BY <1>1, <1>6, ChainsAreChains DEF MatchingParts, ChainsAgree
    <2>2. new.last \in Owned(d) => d.at[new.last].term # new.at[new.last].term
        <3> SUFFICES ASSUME last + 1 \in Owned(d), d.at[last + 1].term = currentTerm[i] PROVE FALSE
            BY <1>7
        <3>1. last + 1 <= last
            BY <1>2, <1>4 DEF MatchingParts, LeaderHasLast
        <3> QED BY <3>1
    <2> HIDE DEF c
    <2> QED BY <1>5, <1>6, <2>1, <2>2, ExtensionAgrees DEF ExtensionOf
<1>9. ASSUME NEW n \in Owned(new)
      PROVE  \/ \E d \in Chains : n \in Owned(d) /\ d.at[n].term = new.at[n].term
             \/ Appended(n, new.at[n].term)
    <2>1. CASE n \in Owned(c)
        BY <1>5, <1>6, <2>1 DEF ExtensionOf
    <2>2. CASE n = last + 1
        <3>1. new.at[n].term = currentTerm[i] /\ n <= LastLogIndex(i)'
            BY <1>5, <1>7, <2>2
        <3> QED BY <1>2, <3>1 DEF Appended
    <2>3. n \in Owned(c) \/ n = last + 1
        <3> HIDE DEF c
        <3> QED BY <1>5, <1>6 DEF Owned, ExtensionOf, IsChain
    <2> QED BY <2>1, <2>2, <2>3
<1>10. NoNewCall
    BY <1>2, FewerCalls
<1>11. LastLogIndex(i) <= LastLogIndex(i)'
    BY <1>4, <1>5
<1> QED BY <1>3, <1>5, <1>8, <1>9, <1>10, <1>11, KeptByNewLog DEF OthersKeepLog

\* The follower keeps its log up to the entry it shares with the leader.
LEMMA AcceptedLog ==
    ASSUME TypeOK, TypeOK', NEW m \in rpcs, AcceptAppendEntries(m),
           NEW new, new = LogChain(m.to)'
    PROVE  /\ JoinOf(new, LogChain(m.to), CallChain(m))
           /\ LastLogIndex(m.to)' = m.prevLogIndex + Len(m.entries)
           /\ OthersKeepLog(m.to)
<1> DEFINE i == m.to
           prev == m.prevLogIndex
           c == LogChain(i)
           call == CallChain(m)
           base == lastIncludedIndex[i]
           kept == SubSeq(log[i], 1, prev + 1 - base)
<1>2. /\ m.type = "AppendEntries"
      /\ state' = [state EXCEPT ![i] = "Follower"]
      /\ UNCHANGED <<lastIncludedIndex, lastIncludedTerm>>
      /\ prev \in base .. LastLogIndex(i)
      /\ LogTerm(i, prev) = m.prevLogTerm
      /\ log' = [log EXCEPT ![i] = kept \o m.entries]
      /\ Respond(m, AppendEntriesReply(m, m.term, TRUE, 0))
    BY DEF AcceptAppendEntries, HearLeader, BecomeFollower, Matches, NewLog
<1>3. m \in AppendEntriesRpc /\ m \in Calls /\ i \in Node
    BY <1>2, RpcTypes DEF TypeOK, Calls
<1>4. m.entries \in Seq(Entry) /\ Len(m.entries) \in Nat /\ prev \in Nat
    BY <1>3, CallChainIs DEF AppendEntriesRpc
<1>5. /\ Len(log[i]) \in Nat \ {0} /\ base \in Nat
      /\ LastLogIndex(i) = base + Len(log[i]) - 1
      /\ base <= prev /\ prev <= LastLogIndex(i) /\ prev \in Int
    <2>1. Len(log[i]) \in Nat \ {0} /\ LastLogIndex(i) \in Nat
        BY <1>3, EntryTypes
    <2>2. base \in Nat
        BY <1>3 DEF TypeOK
    <2>3. LastLogIndex(i) = base + Len(log[i]) - 1
        BY DEF LastLogIndex
    <2> QED BY <1>2, <2>1, <2>2, <2>3
<1>6. /\ kept \in Seq(Entry) /\ Len(kept) = prev + 1 - base
      /\ \A k \in 1 .. prev + 1 - base : kept[k] = log[i][k]
    <2> DEFINE len == prev + 1 - base
    <2>1. len \in Nat \ {0} /\ len <= Len(log[i]) /\ len - 1 + 1 = len
        BY <1>5
    <2> HIDE DEF len
    <2>4. \A k \in 1 .. Len(log[i]) : log[i][k] \in Entry
        BY <1>3, EntryTypes
    <2>2. \A k \in 1 .. len : log[i][k] \in Entry
        BY <1>5, <2>1, <2>4
    <2>3. /\ SubSeq(log[i], 1, len) \in Seq(Entry)
          /\ Len(SubSeq(log[i], 1, len)) = len
          /\ \A k \in 1 .. len : SubSeq(log[i], 1, len)[k] = log[i][k]
        BY <2>1, <2>2, SubSeqProperties
    <2> QED BY <2>3 DEF len
<1> HIDE DEF kept
<1>7. /\ log'[i] = kept \o m.entries
      /\ Len(log'[i]) = prev + 1 - base + Len(m.entries)
      /\ \A k \in 1 .. prev + 1 - base : log'[i][k] = log[i][k]
      /\ \A k \in 1 .. Len(m.entries) : log'[i][prev + 1 - base + k] = m.entries[k]
    <2>1. log'[i] = kept \o m.entries
        BY <1>2, <1>3 DEF TypeOK
    <2>2. /\ Len(kept \o m.entries) = Len(kept) + Len(m.entries)
          /\ \A k \in 1 .. Len(kept) + Len(m.entries) :
                (kept \o m.entries)[k] = IF k <= Len(kept) THEN kept[k] ELSE m.entries[k - Len(kept)]
        BY <1>4, <1>6, ConcatProperties
    <2>3. prev + 1 - base \in Nat
        BY <1>2, <1>4, <1>5
    <2>4. ASSUME NEW k \in 1 .. prev + 1 - base PROVE log'[i][k] = log[i][k]
        <3>1. k \in 1 .. Len(kept) + Len(m.entries) /\ k <= Len(kept)
            BY <1>4, <1>6, <2>3
        <3> QED BY <1>6, <2>1, <2>2, <3>1
    <2>5. ASSUME NEW k \in 1 .. Len(m.entries)
          PROVE  log'[i][prev + 1 - base + k] = m.entries[k]
        <3>1. /\ Len(kept) + k \in 1 .. Len(kept) + Len(m.entries) /\ ~(Len(kept) + k <= Len(kept))
              /\ Len(kept) + k - Len(kept) = k
            BY <1>4, <1>6, <2>3
        <3>2. (kept \o m.entries)[Len(kept) + k] = m.entries[k]
            BY <2>2, <3>1
        <3> QED BY <1>6, <2>1, <3>2
    <2> QED BY <1>6, <2>1, <2>2, <2>4, <2>5
<1>8. LastLogIndex(i)' = prev + Len(m.entries)
    <2>1. lastIncludedIndex'[i] = base /\ Len(log'[i]) = prev + 1 - base + Len(m.entries)
        BY <1>2, <1>7
    <2>2. LastLogIndex(i)' = lastIncludedIndex'[i] + Len(log'[i]) - 1
        BY DEF LastLogIndex
    <2>3. Len(m.entries) \in Int /\ prev \in Int /\ base \in Int
        BY <1>4, <1>5
    <2> QED BY <2>1, <2>2, <2>3
<1>9. LogChainIs(i) /\ LogChainIs(i)'
    <2>1. (TypeOK => LogChainsAre)'
        BY LogChains, PTL
    <2> QED BY <1>3, <2>1, LogChains DEF LogChainsAre
<1>11. /\ IsChain(new) /\ new.base = base /\ new.last = prev + Len(m.entries)
       /\ new.at[base].term = lastIncludedTerm[i]
       /\ Held(i)' = (base + 1) .. (prev + Len(m.entries))
       /\ Held(i)' = Owned(new)
       /\ \A n \in Held(i)' : new.at[n] = EntryAt(i, n)'
    <2>1. Held(i)' = (base + 1) .. (prev + Len(m.entries))
        BY <1>2, <1>8 DEF Held
    <2> QED BY <1>2, <1>8, <1>9, <2>1 DEF LogChainIs, IsChain, Owned
<1>12. /\ IsChain(call) /\ call.base = prev /\ call.last = prev + Len(m.entries)
       /\ call.at[prev].term = m.prevLogTerm
       /\ \A n \in Owned(call) : call.at[n] = m.entries[n - prev]
       /\ Owned(call) = (prev + 1) .. (prev + Len(m.entries))
       /\ call \in Chains
    <2>1. call \in Chains
        BY <1>3 DEF Chains
    <2> QED BY <1>3, <2>1, CallChainIs DEF Owned
<1>13. /\ c \in Chains /\ IsChain(c) /\ c.base = base /\ c.last = LastLogIndex(i)
       /\ Owned(c) = Held(i) /\ c.at[base].term = lastIncludedTerm[i]
       /\ \A n \in Held(i) : c.at[n] = EntryAt(i, n)
       /\ Held(i) = (base + 1) .. LastLogIndex(i)
    BY <1>9 DEF LogChainIs, Held
<1> HIDE DEF c, call
\* The entries of the follower and those of the call.
<1>14. ASSUME NEW n \in (base + 1) .. prev
       PROVE  n \in Owned(c) /\ n \in Owned(new) /\ new.at[n] = c.at[n]
    <2>1. n \in Held(i) /\ n \in Held(i)' /\ n - base + 1 \in 1 .. prev + 1 - base
        <3>0. base \in Nat /\ prev \in Nat /\ Len(m.entries) \in Nat /\ LastLogIndex(i) \in Int
            BY <1>4, <1>5
        <3>1. PICK b \in Nat, p \in Nat, len \in Nat, last \in Int :
                  b = base /\ p = prev /\ len = Len(m.entries) /\ last = LastLogIndex(i)
            BY <3>0
        <3>2. n \in (b + 1) .. p /\ p <= last
            BY <1>5, <3>1
        <3>3. n \in (b + 1) .. last /\ n \in (b + 1) .. (p + len) /\ n - b + 1 \in 1 .. p + 1 - b
            BY <3>2
        <3> QED BY <1>11, <1>13, <3>1, <3>3
    <2>2. EntryAt(i, n)' = EntryAt(i, n)
        BY <1>2, <1>7, <2>1 DEF EntryAt
    <2> QED BY <1>11, <1>13, <2>1, <2>2
<1>15. ASSUME NEW n \in (prev + 1) .. (prev + Len(m.entries))
       PROVE  n \in Owned(call) /\ n \in Owned(new) /\ new.at[n] = call.at[n]
    <2>1. /\ n - prev \in 1 .. Len(m.entries)
          /\ prev + 1 - base + (n - prev) = n - base + 1
          /\ n \in (base + 1) .. (prev + Len(m.entries))
        <3>1. Len(m.entries) \in Int /\ prev \in Int /\ base \in Int /\ base <= prev
            BY <1>4, <1>5
        <3> QED BY <3>1
    <2>2. log'[i][n - base + 1] = m.entries[n - prev]
        BY <1>7, <2>1
    <2>3. EntryAt(i, n)' = m.entries[n - prev]
        BY <1>2, <2>2 DEF EntryAt
    <2> QED BY <1>11, <1>12, <2>1, <2>3
<1>16. m.prevLogTerm = c.at[prev].term
    <2>1. CASE prev = base
        BY <1>2, <1>13, <2>1 DEF LogTerm
    <2>2. CASE prev # base
        <3>1. prev \in Held(i)
            BY <1>4, <1>5, <1>13, <2>2
        <3> QED BY <1>2, <1>13, <2>2, <3>1 DEF LogTerm
    <2> QED BY <2>1, <2>2
\* With the base of its log included, whose command is forgotten.
<1>17. /\ \A n \in Span(new) : new.at[n].term = IF n <= prev THEN c.at[n].term ELSE call.at[n].term
       /\ \A n \in Owned(new) : new.at[n] = IF n <= prev THEN c.at[n] ELSE call.at[n]
    <2>1. \A n \in Owned(new) : \/ n <= prev /\ n \in (base + 1) .. prev
                                \/ ~(n <= prev) /\ n \in (prev + 1) .. (prev + Len(m.entries))
        BY <1>4, <1>5, <1>11
    <2>2. \A n \in Owned(new) : new.at[n] = IF n <= prev THEN c.at[n] ELSE call.at[n]
        BY <1>14, <1>15, <2>1
    <2>3. \A n \in Span(new) : n = base \/ n \in Owned(new)
        BY <1>5, <1>11 DEF Span
    <2>4. base <= prev /\ new.at[base].term = c.at[base].term
        BY <1>5, <1>11, <1>13
    <2> QED BY <2>2, <2>3, <2>4
<1>18. call.base \in Span(c) /\ call.base <= call.last /\ c.at[call.base].term = call.at[call.base].term
    BY <1>4, <1>5, <1>12, <1>13, <1>16 DEF Span
<1>19. \A j \in Node \ {i} : /\ log'[j] = log[j]
                            /\ lastIncludedIndex'[j] = lastIncludedIndex[j]
                            /\ lastIncludedTerm'[j] = lastIncludedTerm[j]
    <2>1. log \in [Node -> Log]
        BY <1>3 DEF TypeOK
    <2> HIDE DEF i
    <2>2. TAKE j \in Node \ {i}
    <2>3. log'[j] = log[j]
        BY <1>2, <2>1
    <2>4. lastIncludedIndex'[j] = lastIncludedIndex[j] /\ lastIncludedTerm'[j] = lastIncludedTerm[j]
        BY <1>2
    <2> QED BY <2>3, <2>4
<1> QED BY <1>8, <1>11, <1>12, <1>13, <1>17, <1>18, <1>19 DEF JoinOf, OthersKeepLog, c, call

LEMMA AcceptAppendEntriesKeeps ==
    ASSUME StorageSurvives, ElectionInv, MatchingParts, [Next]_vars,
           NEW m \in rpcs, AcceptAppendEntries(m)
    PROVE  MatchingParts'
<1> DEFINE i == m.to
           c == LogChain(i)
           call == CallChain(m)
<1>1. TypeOK /\ TypeOK'
    BY TypeStep DEF ElectionInv
<1>2. /\ m.type = "AppendEntries"
      /\ state' = [state EXCEPT ![i] = "Follower"]
      /\ Respond(m, AppendEntriesReply(m, m.term, TRUE, 0))
    BY DEF AcceptAppendEntries, HearLeader, BecomeFollower
<1>3. m \in AppendEntriesRpc /\ m \in Calls /\ i \in Node
    BY <1>1, <1>2, RpcTypes DEF TypeOK, Calls, AppendEntriesRpc
<1>4. PICK new : new = LogChain(i)'
    OBVIOUS
<1>5. JoinOf(new, c, call) /\ OthersKeepLog(i)
    BY <1>1, <1>4, AcceptedLog
<1>6. c \in Chains /\ IsChain(c) /\ call \in Chains /\ IsChain(call)
    BY <1>1, <1>3, LogChains, CallChainIs DEF LogChainsAre, LogChainIs, Chains
<1> HIDE DEF c, call
<1>7. ASSUME NEW d \in Chains PROVE Agree(new, d)
    <2>1. IsChain(d) /\ Agree(c, d) /\ Agree(call, d)
        BY <1>1, <1>6, ChainsAreChains DEF MatchingParts, ChainsAgree
    <2> QED BY <1>5, <1>6, <2>1, JoinAgrees DEF JoinOf
<1>8. ASSUME NEW n \in Owned(new)
      PROVE  \E d \in Chains : n \in Owned(d) /\ d.at[n].term = new.at[n].term
    <2>1. n <= call.base => n \in Owned(c) /\ new.at[n] = c.at[n]
        BY <1>5, <1>6 DEF JoinOf, Owned, Span, IsChain
    <2>2. ~(n <= call.base) => n \in Owned(call) /\ new.at[n] = call.at[n]
        BY <1>5, <1>6 DEF JoinOf, Owned, Span, IsChain
    <2> QED BY <1>6, <2>1, <2>2
<1>9. NoNewCall
    <2>1. ~LeaderCall(AppendEntriesReply(m, m.term, TRUE, 0))
        BY DEF LeaderCall, AppendEntriesReply
    <2> QED BY <1>2, <2>1, RespondNoCall
<1>10. state'[i] # "Leader"
    BY <1>1, <1>2, <1>3 DEF TypeOK
<1> QED BY <1>3, <1>4, <1>5, <1>7, <1>8, <1>9, <1>10, KeptByNewLog DEF OthersKeepLog

\* A log with nothing but its dummy entry agrees with every other.
LEMMA KeptByBareLog ==
    ASSUME StorageSurvives, ElectionInv, MatchingParts, [Next]_vars, NoNewCall, NEW i \in Node,
           \A j \in Node \ {i} : /\ log'[j] = log[j]
                                /\ lastIncludedIndex'[j] = lastIncludedIndex[j]
                                /\ lastIncludedTerm'[j] = lastIncludedTerm[j],
           state[i] = "Leader" /\ state'[i] = "Leader" /\ currentTerm'[i] = currentTerm[i] =>
               LastLogIndex(i) <= LastLogIndex(i)',
           Len(log'[i]) = 1
    PROVE  MatchingParts'
<1>1. TypeOK /\ TypeOK'
    BY TypeStep DEF ElectionInv
<1>2. LogChainIs(i)'
    <2>1. (TypeOK => LogChainsAre)'
        BY LogChains, PTL
    <2> QED BY <1>1, <2>1 DEF LogChainsAre
<1>3. LastLogIndex(i)' = lastIncludedIndex'[i] /\ lastIncludedIndex'[i] \in Int
    BY <1>1 DEF LastLogIndex, TypeOK
<1>4. PICK new : new = LogChain(i)'
    OBVIOUS
<1>5. new.base = lastIncludedIndex'[i] /\ new.last = new.base /\ new.base \in Int
    BY <1>2, <1>3, <1>4 DEF LogChainIs
<1>6. IsChain(new) /\ Owned(new) = {}
    BY <1>5 DEF IsChain, Owned
<1>7. \A d \in Chains : Agree(new, d)
    BY <1>1, <1>5, <1>6, BareAgrees, ChainsAreChains
<1> QED BY <1>4, <1>6, <1>7, KeptByNewLog

LEMMA HandleInstallSnapshotKeeps ==
    ASSUME StorageSurvives, ElectionInv, MatchingParts, [Next]_vars,
           NEW m \in rpcs, HandleInstallSnapshot(m)
    PROVE  MatchingParts'
<1> DEFINE i == m.to
           index == m.lastIncludedIndex
<1>1. TypeOK /\ TypeOK'
    BY TypeStep DEF ElectionInv
<1>2. /\ m.type = "InstallSnapshot" /\ m.term >= currentTerm[i]
      /\ state' = [state EXCEPT ![i] = IF m.term > currentTerm[i] THEN "Follower" ELSE @]
    BY DEF HandleInstallSnapshot
<1>3. m \in InstallSnapshotRpc /\ i \in Node /\ m.from \in Node /\ m.term \in Nat
    BY <1>1, <1>2, RpcTypes DEF TypeOK, InstallSnapshotRpc
<1>4. CASE /\ LogStill
           /\ Respond(m, InstallSnapshotReply(m, m.term))
    <2>1. ~LeaderCall(InstallSnapshotReply(m, m.term))
        BY DEF LeaderCall, InstallSnapshotReply
    <2>2. NoNewCall
        BY <1>4, <2>1, RespondNoCall
    <2> QED BY <1>4, <2>2, KeptByQuietChains DEF LogStill
<1>5. CASE /\ lastIncludedIndex' = [lastIncludedIndex EXCEPT ![i] = index]
           /\ lastIncludedTerm' = [lastIncludedTerm EXCEPT ![i] = m.lastIncludedTerm]
           /\ log' = [log EXCEPT ![i] = <<Dummy(m.lastIncludedTerm)>>]
           /\ rpcs' = (rpcs \ {m}) \cup {SnapshotMsg(m, m.term)}
    <2>1. NoNewCall
        <3>1. ~LeaderCall(SnapshotMsg(m, m.term))
            BY DEF LeaderCall, SnapshotMsg
        <3> QED BY <1>5, <3>1 DEF NoNewCall, SameCall
    <2>2. \A j \in Node \ {i} : /\ log'[j] = log[j]
                               /\ lastIncludedIndex'[j] = lastIncludedIndex[j]
                               /\ lastIncludedTerm'[j] = lastIncludedTerm[j]
        BY <1>1, <1>5 DEF TypeOK
    <2>3. Len(log'[i]) = 1
        BY <1>1, <1>3, <1>5 DEF TypeOK
\* A leader of the call's term would be the one who made the call.
    <2>4. ~(state[i] = "Leader" /\ state'[i] = "Leader")
        <3> SUFFICES ASSUME state[i] = "Leader", state'[i] = "Leader" PROVE FALSE
            OBVIOUS
        <3>1. m.term = currentTerm[i]
            <4>1. currentTerm[i] \in Nat /\ state \in [Node -> {"Follower", "Candidate", "Leader"}]
                BY <1>1, <1>3 DEF TypeOK
            <4>2. ~(m.term > currentTerm[i])
                BY <1>2, <1>3, <4>1
            <4> QED BY <1>2, <1>3, <4>1, <4>2
        <3>2. m.from # i /\ Led(m.from, m.term)
            BY <1>2 DEF MatchingParts, CallsLed
        <3>3. Led(m.from, currentTerm[i])
            BY <3>1, <3>2
        <3>4. m.from = i
            BY <1>3, <3>3, OneLed DEF OneLeads
        <3> QED BY <3>2, <3>4
    <2> QED BY <1>3, <2>1, <2>2, <2>3, <2>4, KeptByBareLog
<1> QED BY <1>4, <1>5 DEF HandleInstallSnapshot, LogStill

LEMMA CompactKeeps ==
    ASSUME StorageSurvives, ElectionInv, MatchingParts, [Next]_vars, UNCHANGED rpcs,
           NEW i \in Node, NEW index \in Nat, NEW data, index > lastIncludedIndex[i],
           Compact(i, index, data)
    PROVE  MatchingParts'
<1> DEFINE offset == index - lastIncludedIndex[i]
           known == offset < Len(log[i])
           t == IF known THEN log[i][offset + 1].term ELSE lastIncludedTerm[i]
           rest == IF known THEN SubSeq(log[i], offset + 2, Len(log[i])) ELSE << >>
           c == LogChain(i)
<1>1. TypeOK /\ TypeOK'
    BY TypeStep DEF ElectionInv
<1>2. /\ lastIncludedTerm' = [lastIncludedTerm EXCEPT ![i] = t]
      /\ lastIncludedIndex' = [lastIncludedIndex EXCEPT ![i] = index]
      /\ log' = [log EXCEPT ![i] = <<Dummy(t)>> \o rest]
    BY DEF Compact
<1>3. /\ lastIncludedTerm'[i] = t /\ lastIncludedIndex'[i] = index
      /\ log'[i] = <<Dummy(t)>> \o rest
      /\ \A j \in Node \ {i} : /\ log'[j] = log[j]
                              /\ lastIncludedIndex'[j] = lastIncludedIndex[j]
                              /\ lastIncludedTerm'[j] = lastIncludedTerm[j]
    BY <1>1, <1>2 DEF TypeOK
<1>4. PICK base \in Nat : base = lastIncludedIndex[i]
    BY <1>1 DEF TypeOK
<1>5. PICK last \in Nat : last = LastLogIndex(i)
    BY <1>1, EntryTypes
<1>6. PICK len \in Nat \ {0} : len = Len(log[i])
    BY <1>1, EntryTypes
<1>7. last = base + len - 1 /\ index > base
    BY <1>4, <1>5, <1>6 DEF LastLogIndex
<1>8. \A k \in 1 .. len : log[i][k] \in Entry
    BY <1>1, <1>6, EntryTypes
<1>9. NoNewCall
    BY FewerCalls
<1>10. CASE ~known
    <2>1. log'[i] = <<Dummy(t)>> \o << >>
        BY <1>3, <1>10
    <2>2. t = lastIncludedTerm[i] /\ t \in Nat
        BY <1>1, <1>10 DEF TypeOK
    <2> HIDE DEF t, rest, known
    <2>3. <<Dummy(t)>> \in Seq(Entry) /\ Len(<<Dummy(t)>>) = 1
        BY <2>2 DEF Dummy, Entry
    <2>4. Len(log'[i]) = 1
        BY <2>1, <2>3, ConcatEmptySeq
    <2>5. LastLogIndex(i)' = index
        BY <1>3, <2>4 DEF LastLogIndex
    <2>6. last <= index
        BY <1>4, <1>6, <1>7, <1>10 DEF known
    <2> QED BY <1>3, <1>5, <1>9, <2>4, <2>5, <2>6, KeptByBareLog
<1>11. CASE known
    <2>1. /\ t = log[i][index - base + 1].term
          /\ rest = SubSeq(log[i], index - base + 2, len)
          /\ index - base < len
        BY <1>4, <1>6, <1>11
    <2> HIDE DEF t, rest, known, offset
    <2>2. /\ index - base + 2 \in Nat \ {0} /\ index - base + 1 \in 1 .. len
          /\ len - (index - base + 2) + 1 = last - index /\ last - index \in Nat
          /\ (IF index - base + 2 <= len THEN len - (index - base + 2) + 1 ELSE 0) = last - index
        BY <1>7, <2>1
    <2>3. t \in Nat
        BY <1>8, <2>1, <2>2 DEF Entry
    <2>4. /\ rest \in Seq(Entry) /\ Len(rest) = last - index
          /\ \A k \in 1 .. last - index : rest[k] = log[i][index - base + 2 + k - 1]
        <3>1. \A k \in (index - base + 2) .. len : log[i][k] \in Entry
            BY <1>8, <2>2
        <3> QED BY <2>1, <2>2, <3>1, SubSeqProperties
    <2>5. /\ Len(log'[i]) = last - index + 1
          /\ \A k \in 1 .. last - index : log'[i][k + 1] = rest[k]
        <3>1. <<Dummy(t)>> \in Seq(Entry) /\ Len(<<Dummy(t)>>) = 1
            BY <2>3 DEF Dummy, Entry
        <3>2. /\ Len(<<Dummy(t)>> \o rest) = 1 + (last - index)
              /\ \A k \in 1 .. 1 + (last - index) :
                    (<<Dummy(t)>> \o rest)[k] = IF k <= 1 THEN <<Dummy(t)>>[k] ELSE rest[k - 1]
            BY <2>4, <3>1, ConcatProperties
        <3>3. ASSUME NEW k \in 1 .. last - index PROVE log'[i][k + 1] = rest[k]
            <4>1. k + 1 \in 1 .. 1 + (last - index) /\ ~(k + 1 <= 1) /\ k + 1 - 1 = k
                BY <2>2
            <4> QED BY <1>3, <3>2, <4>1
        <3> QED BY <1>3, <2>2, <3>2, <3>3
    <2>6. LastLogIndex(i)' = last
        <3>1. LastLogIndex(i)' = index + Len(log'[i]) - 1
            BY <1>3 DEF LastLogIndex
        <3> QED BY <2>2, <2>5, <3>1
    <2>7. ASSUME NEW n \in (index + 1) .. last
          PROVE  n \in Held(i) /\ EntryAt(i, n)' = EntryAt(i, n)
        <3>1. /\ n - index \in 1 .. last - index /\ n \in (base + 1) .. last
              /\ index - base + 2 + (n - index) - 1 = n - base + 1
            BY <1>7
        <3>2. n \in Held(i)
            BY <1>4, <1>5, <3>1 DEF Held
        <3>3. log'[i][n - index + 1] = log[i][n - base + 1]
            <4>1. log'[i][n - index + 1] = rest[n - index]
                BY <2>5, <3>1
            <4>2. rest[n - index] = log[i][index - base + 2 + (n - index) - 1]
                BY <2>4, <3>1
            <4> QED BY <3>1, <4>1, <4>2
        <3>4. EntryAt(i, n)' = log'[i][n - index + 1] /\ EntryAt(i, n) = log[i][n - base + 1]
            BY <1>3, <1>4 DEF EntryAt
        <3> QED BY <3>2, <3>3, <3>4
    <2>8. LogChainIs(i) /\ LogChainIs(i)'
        <3>1. (TypeOK => LogChainsAre)'
            BY LogChains, PTL
        <3> QED BY <1>1, <3>1, LogChains DEF LogChainsAre
    <2>9. /\ c \in Chains /\ IsChain(c) /\ c.base = base /\ c.last = last
          /\ Owned(c) = Held(i) /\ \A n \in Held(i) : c.at[n] = EntryAt(i, n)
        BY <1>4, <1>5, <2>8 DEF LogChainIs
    <2>10. PICK new : new = LogChain(i)'
        OBVIOUS
    <2>11. /\ IsChain(new) /\ new.base = index /\ new.last = last
           /\ new.at[index].term = t
           /\ Owned(new) = Held(i)' /\ \A n \in Held(i)' : new.at[n] = EntryAt(i, n)'
        BY <1>3, <2>6, <2>8, <2>10 DEF LogChainIs, Owned
    <2> HIDE DEF c
    <2>12. Owned(new) = (index + 1) .. last /\ Span(new) = index .. last
        BY <2>11 DEF Owned, Span
    <2>13. \A n \in Owned(new) : n \in Owned(c) /\ new.at[n] = c.at[n]
        BY <2>7, <2>9, <2>11, <2>12
    <2>14. index \in Held(i) /\ index \in Span(c) /\ c.at[index].term = t
        <3>1. index \in (base + 1) .. last
            BY <1>7, <2>2
        <3>2. index \in Held(i)
            BY <1>4, <1>5, <3>1 DEF Held
        <3>3. EntryAt(i, index).term = t
            BY <1>4, <2>1 DEF EntryAt
        <3>4. index \in Span(c)
            BY <1>7, <2>9, <3>1 DEF Span
        <3> QED BY <2>9, <3>2, <3>3, <3>4
    <2>15. \A n \in Span(new) : new.at[n].term = c.at[n].term
        <3>1. \A n \in Span(new) : n = index \/ n \in Owned(new)
            BY <2>12
        <3> QED BY <2>11, <2>13, <2>14, <3>1
    <2>16. ASSUME NEW d \in Chains PROVE Agree(new, d)
        <3>1. IsChain(d) /\ Agree(c, d)
            BY <1>1, <2>9, ChainsAreChains DEF MatchingParts, ChainsAgree
        <3> QED BY <2>9, <2>11, <2>13, <2>14, <2>15, <3>1, SuffixAgrees
    <2>17. \A n \in Owned(new) : \E d \in Chains : n \in Owned(d) /\ d.at[n].term = new.at[n].term
        BY <2>9, <2>13
    <2>18. LastLogIndex(i) <= LastLogIndex(i)'
        BY <1>5, <2>6
    <2> QED BY <1>3, <1>9, <2>10, <2>16, <2>17, <2>18, KeptByNewLog
<1> QED BY <1>10, <1>11

-----------------------------------------------------------------------------
(* The theorems. *)

LEMMA InitMatching == Init => MatchingInv
<1> SUFFICES ASSUME Init PROVE MatchingInv
    OBVIOUS
<1>1. ElectionInv
    BY InitInv
<1>2. TypeOK
    BY <1>1 DEF ElectionInv
<1>3. \A c \in Chains : Owned(c) = {} /\ IsChain(c) /\ c.last <= c.base
    <2>1. Calls = {}
        BY DEF Init, Calls
    <2>2. ASSUME NEW i \in Node
          PROVE  Owned(LogChain(i)) = {} /\ LogChain(i).last <= LogChain(i).base
        <3>1. lastIncludedIndex[i] = 0 /\ Len(log[i]) = 1
            BY DEF Init
        <3>2. LastLogIndex(i) = 0
            BY <3>1 DEF LastLogIndex
        <3> QED BY <1>2, <3>1, <3>2, LogChains DEF LogChainsAre, LogChainIs, Owned
    <2> QED BY <1>2, <2>1, <2>2, ChainsAreChains DEF Chains
<1>4. ChainsAgree
    BY <1>3, BareAgrees DEF ChainsAgree
<1>5. EntriesLed /\ LeaderHasLast
    BY <1>3 DEF EntriesLed, LeaderHasLast
<1>6. CallsLed
    BY DEF Init, CallsLed
<1> QED BY <1>1, <1>4, <1>5, <1>6 DEF MatchingInv

LEMMA MatchingStep ==
    ASSUME StorageSurvives, MatchingInv, [Next]_vars
    PROVE  MatchingInv'
<1>1. ElectionInv /\ MatchingParts /\ TypeOK
    BY DEF MatchingInv, MatchingParts, ElectionInv
<1>2. ElectionInv'
    BY <1>1, InvStep
<1>3. LogStill /\ NoNewCall => MatchingParts'
    BY <1>1, KeptByQuietChains DEF LogStill
<1>4. ASSUME NEW i \in Node, NodeStep(i) PROVE MatchingParts'
    <2>1. CASE ElectionTimeout(i) \/ QuietTick(i) \/ ApplierTake(i) \/ ServiceApply(i) \/ Restart(i)
        BY <1>1, <1>3, <2>1, NodeStepStill
    <2>2. CASE \E j \in Node : SendAppendEntries(i, j)
        BY <1>1, <2>2, SendAppendEntriesKeeps
    <2>3. CASE \E j \in Node : SendInstallSnapshot(i, j)
        BY <1>1, <2>3, SendInstallSnapshotKeeps
    <2>4. CASE \E command \in Value : Start(i, command)
        BY <1>1, <2>4, StartKeeps
    <2>5. CASE Snapshot(i)
        <3>1. UNCHANGED rpcs
            BY <2>5 DEF Snapshot
        <3>2. CASE UNCHANGED persistentVars
            BY <1>3, <3>1, <3>2, FewerCalls DEF persistentVars, LogStill
        <3>3. CASE /\ compacting[i] # << >>
                   /\ compacting[i][1].index > lastIncludedIndex[i]
                   /\ Compact(i, compacting[i][1].index, compacting[i][1].data)
            <4>1. compacting[i] \in Seq(PendingSnapshot)
                BY <1>1 DEF TypeOK
            <4>2. compacting[i][1] \in PendingSnapshot
                <5>1. Len(compacting[i]) \in Nat \ {0}
                    BY <3>3, <4>1, EmptySeq
                <5>2. 1 \in 1 .. Len(compacting[i])
                    BY <5>1
                <5> QED BY <4>1, <5>2, ElementOfSeq
            <4>3. compacting[i][1].index \in Nat
                BY <4>2 DEF PendingSnapshot
            <4> QED BY <1>1, <3>1, <3>3, <4>3, CompactKeeps
        <3> QED BY <2>5, <3>2, <3>3 DEF Snapshot
    <2> QED BY <1>4, <2>1, <2>2, <2>3, <2>4, <2>5 DEF NodeStep
<1>5. ASSUME NEW m \in rpcs, CallStep(m) PROVE MatchingParts'
    <2>1. CASE AcceptAppendEntries(m)
        BY <1>1, <2>1, AcceptAppendEntriesKeeps
    <2>2. CASE HandleInstallSnapshot(m)
        BY <1>1, <2>2, HandleInstallSnapshotKeeps
    <2>3. CASE ~AcceptAppendEntries(m) /\ ~HandleInstallSnapshot(m)
        BY <1>1, <1>3, <1>5, <2>3, CallStepStill DEF CallStep, HandleAppendEntries
    <2> QED BY <2>1, <2>2, <2>3
<1>6. ASSUME UNCHANGED vars PROVE MatchingParts'
    BY <1>3, <1>6, FewerCalls DEF vars, persistentVars, LogStill
<1>7. MatchingParts'
    BY <1>4, <1>5, <1>6 DEF Next
<1> QED BY <1>2, <1>7 DEF MatchingInv, MatchingParts

LEMMA ChainsMatch == MatchingInv => LogMatching
<1> SUFFICES ASSUME MatchingInv, NEW i \in Node, NEW j \in Node,
                    NEW n \in Held(i) \cap Held(j), EntryAt(i, n).term = EntryAt(j, n).term,
                    NEW k \in Held(i) \cap Held(j), k <= n
             PROVE  EntryAt(i, k) = EntryAt(j, k)
    BY DEF LogMatching
<1>1. LogChainIs(i) /\ LogChainIs(j)
    BY LogChains DEF MatchingInv, ElectionInv, LogChainsAre
<1>2. Agree(LogChain(i), LogChain(j))
    BY <1>1 DEF MatchingInv, ChainsAgree, LogChainIs
<1>3. \A c : IsChain(c) => Owned(c) \subseteq Span(c)
    BY DEF IsChain, Owned, Span
<1>4. /\ n \in Span(LogChain(i)) \cap Span(LogChain(j))
      /\ k \in Span(LogChain(i)) \cap Span(LogChain(j))
    BY <1>1, <1>3 DEF LogChainIs
<1>5. LogChain(i).at[k] = LogChain(j).at[k]
    BY <1>1, <1>2, <1>4 DEF LogChainIs, Agree
<1> QED BY <1>1, <1>5 DEF LogChainIs

\* MatchingInv is inductive, whatever Start, AppendEntries, InstallSnapshot and Snapshot
\* do to rf.log, with calls lost, reordered or left over from a crash.
THEOREM MatchingInvariant == StorageSurvives /\ Spec => []MatchingInv
<1> SUFFICES ASSUME StorageSurvives PROVE Spec => []MatchingInv
    OBVIOUS
<1>1. MatchingInv /\ [Next]_vars => MatchingInv'
    BY MatchingStep
<1> QED BY <1>1, InitMatching, PTL DEF Spec

\* Logs that share an entry's term share all they hold up to it, for any number of nodes,
\* entries, calls in flight, compactions and restarts: AppendEntries compares PrevLogTerm
\* before it joins what a leader sent to rf.log.
THEOREM LogsMatch == StorageSurvives /\ Spec => []LogMatching
BY MatchingInvariant, ChainsMatch, PTL
=============================================================================
