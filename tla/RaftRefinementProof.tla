------------------------- MODULE RaftRefinementProof -------------------------
(***************************************************************************)
(* The nodes of Raft implement the replicated log of RaftLog, in the       *)
(* environment of OrderlyNetwork and with more than one node.              *)
(***************************************************************************)
EXTENDS RaftCommitProof, RaftRefinement

-----------------------------------------------------------------------------
(* Logs as sequences. *)

LEMMA LogsAgreeSelf == \A s : LogsAgree(s, s)
BY DEF LogsAgree

\* An entry that is appended to s agrees with what s agrees with, when nobody has another
\* entry of its term beyond s.
LEMMA AppendAgrees ==
    ASSUME NEW s \in Seq(Entry), NEW t \in Seq(Entry), NEW e \in Entry,
           LogsAgree(s, t), LogsAgree(t, s),
           \A n \in 1 .. Len(t) : t[n].term = e.term => n <= Len(s)
    PROVE  LogsAgree(Append(s, e), t) /\ LogsAgree(t, Append(s, e))
<1>1. PICK r \in Seq(Entry) : r = Append(s, e)
    BY AppendProperties
<1>2. PICK k \in Nat, l \in Nat : k = Len(s) /\ l = Len(t)
    BY LenProperties
<1>3. Len(r) = k + 1 /\ r[k + 1] = e /\ \A n \in 1 .. k : r[n] = s[n]
    BY <1>1, <1>2, AppendProperties
<1>4. ASSUME NEW n \in 1 .. l, n <= k + 1, t[n].term = r[n].term, NEW m \in 1 .. n
      PROVE  t[m] = r[m]
    <2>1. n <= k
        <3> SUFFICES ASSUME ~(n <= k) PROVE FALSE
            OBVIOUS
        <3>1. n = k + 1
            BY <1>2, <1>4
        <3>2. t[n].term = e.term
            BY <1>3, <1>4, <3>1
        <3> QED BY <1>2, <3>2
    <2>2. m \in 1 .. k /\ n \in 1 .. k
        BY <1>2, <1>4, <2>1
    <2>3. t[n].term = s[n].term
        BY <1>3, <1>4, <2>2
    <2>4. t[m] = s[m]
        BY <1>2, <2>1, <2>3 DEF LogsAgree
    <2> QED BY <1>3, <2>2, <2>4
<1>5. LogsAgree(t, r)
    BY <1>2, <1>3, <1>4 DEF LogsAgree
<1>6. LogsAgree(r, t)
    <2> SUFFICES ASSUME NEW n \in 1 .. (k + 1), n <= l, r[n].term = t[n].term, NEW m \in 1 .. n
                 PROVE  r[m] = t[m]
        BY <1>2, <1>3 DEF LogsAgree
    <2> QED BY <1>2, <1>4
<1> QED BY <1>1, <1>5, <1>6

\* The log of i as a sequence, and as a chain.
EntriesAt(i) ==
    /\ Entries(i) \in Seq(Entry)
    /\ LastLogIndex(i) \in Nat
    /\ Len(Entries(i)) = LastLogIndex(i)
    /\ LogChain(i).base = 0 /\ LogChain(i).last = LastLogIndex(i)
    /\ Owned(LogChain(i)) = 1 .. LastLogIndex(i)
    /\ \A n \in 1 .. LastLogIndex(i) :
          Entries(i)[n] = LogChain(i).at[n] /\ Entries(i)[n] = log[i][n + 1]

EntriesKnown == \A i \in Node : EntriesAt(i)

LEMMA EntriesAre == TypeOK /\ NoSnapshots => EntriesKnown
<1> SUFFICES ASSUME TypeOK, NoSnapshots, NEW i \in Node PROVE EntriesAt(i)
    BY DEF EntriesKnown
<1>1. /\ log[i] \in Seq(Entry) /\ Len(log[i]) \in Nat \ {0}
      /\ lastIncludedIndex[i] = 0
    BY EntryTypes DEF TypeOK, Log, NoSnapshots
<1>2. PICK k \in Nat : k = LastLogIndex(i) /\ Len(log[i]) = k + 1
    <2>1. PICK l \in Nat \ {0} : l = Len(log[i])
        BY <1>1
    <2>2. LastLogIndex(i) = l - 1 /\ l - 1 \in Nat /\ l = (l - 1) + 1
        BY <1>1, <2>1 DEF LastLogIndex
    <2> QED BY <2>1, <2>2
<1>3. \A n \in 2 .. (k + 1) : log[i][n] \in Entry
    BY <1>1, <1>2, ElementOfSeq
<1>4. /\ Entries(i) \in Seq(Entry) /\ Len(Entries(i)) = k
      /\ \A n \in 1 .. k : Entries(i)[n] = log[i][n + 1]
    <2>1. Entries(i) = SubSeq(log[i], 2, k + 1)
        BY <1>2 DEF Entries
    <2>2. /\ SubSeq(log[i], 2, k + 1) \in Seq(Entry)
          /\ Len(SubSeq(log[i], 2, k + 1)) = IF 2 <= k + 1 THEN k + 1 - 2 + 1 ELSE 0
          /\ \A n \in 1 .. (k + 1 - 2 + 1) : SubSeq(log[i], 2, k + 1)[n] = log[i][2 + n - 1]
        BY <1>3, SubSeqProperties
    <2>3. \A n \in 1 .. k : n \in 1 .. (k + 1 - 2 + 1) /\ 2 + n - 1 = n + 1
        OBVIOUS
    <2>4. Len(Entries(i)) = k
        BY <2>1, <2>2
    <2>5. \A n \in 1 .. k : Entries(i)[n] = log[i][n + 1]
        BY <2>1, <2>2, <2>3
    <2> QED BY <2>1, <2>2, <2>4, <2>5
<1>5. /\ LogChain(i).base = 0 /\ LogChain(i).last = k
      /\ Owned(LogChain(i)) = Held(i) /\ \A n \in Held(i) : LogChain(i).at[n] = EntryAt(i, n)
    BY <1>1, <1>2, LogChains DEF LogChainsAre, LogChainIs
<1>6. Held(i) = 1 .. k /\ \A n \in 1 .. k : EntryAt(i, n) = log[i][n + 1]
    BY <1>1, <1>2 DEF Held, EntryAt
<1> QED BY <1>2, <1>4, <1>5, <1>6 DEF EntriesAt

LEMMA HasEntry ==
    ASSUME EntriesKnown, NEW i \in Node, NEW n, NEW e
    PROVE  Has(i, n, e) <=> n \in 1 .. Len(Entries(i)) /\ Entries(i)[n] = e
BY DEF EntriesKnown, EntriesAt, Has, Holds

\* What a step does to the logs.
EntriesMove(i) ==
    \/ Entries(i)' = Entries(i)
    \/ /\ Grows(i)
       /\ \E e \in Entry : e.term = currentTerm[i] /\ Entries(i)' = Append(Entries(i), e)
    \/ \E m \in Calls : Accepts(i, m)

LEMMA StepKnown ==
    ASSUME Stepped, NoSnapshots'
    PROVE  EntriesKnown /\ EntriesKnown'
<1>1. (TypeOK /\ NoSnapshots => EntriesKnown)'
    BY EntriesAre, PTL
<1> QED BY <1>1, StepTypes, EntriesAre DEF Stepped, Bookkeeping

LEMMA SameChain ==
    ASSUME EntriesKnown, EntriesKnown', NEW i \in Node, LogChain(i)' = LogChain(i)
    PROVE  Entries(i)' = Entries(i)
<1>1. PICK s, t, c :
          /\ s \in Seq(Entry) /\ t \in Seq(Entry)
          /\ s = Entries(i) /\ t = Entries(i)' /\ c = LogChain(i) /\ c = LogChain(i)'
    BY DEF EntriesKnown, EntriesAt
<1>2. Len(s) = c.last /\ Len(t) = c.last
    BY <1>1 DEF EntriesKnown, EntriesAt
<1>3. \A n \in 1 .. c.last : s[n] = c.at[n]
    BY <1>1 DEF EntriesKnown, EntriesAt
<1>4. \A n \in 1 .. c.last : t[n] = c.at[n]
    BY <1>1 DEF EntriesKnown, EntriesAt
<1>5. s = t
    BY <1>1, <1>2, <1>3, <1>4, SeqEqual
<1> QED BY <1>1, <1>5

LEMMA GrownEntries ==
    ASSUME EntriesKnown, EntriesKnown', NEW i \in Node, Grows(i)
    PROVE  \E e \in Entry : e.term = currentTerm[i] /\ Entries(i)' = Append(Entries(i), e)
<1>1. PICK s, t, c, d :
          /\ s \in Seq(Entry) /\ t \in Seq(Entry)
          /\ s = Entries(i) /\ t = Entries(i)' /\ c = LogChain(i) /\ d = LogChain(i)'
    BY DEF EntriesKnown, EntriesAt
<1>2. PICK e : e.term = currentTerm[i] /\ ExtensionOf(d, c, e)
    BY <1>1 DEF Grows
<1>3. PICK k \in Nat : k = Len(s) /\ k = c.last /\ Len(t) = k + 1 /\ d.last = k + 1
    BY <1>1, <1>2 DEF EntriesKnown, EntriesAt, ExtensionOf
<1>4. Owned(c) = 1 .. k /\ \A n \in 1 .. k : s[n] = c.at[n]
    BY <1>1, <1>3 DEF EntriesKnown, EntriesAt
<1>5. \A n \in 1 .. (k + 1) : t[n] = d.at[n]
    BY <1>1, <1>3 DEF EntriesKnown, EntriesAt
<1>6. \A n \in 1 .. k : t[n] = s[n]
    BY <1>2, <1>4, <1>5 DEF ExtensionOf
<1>7. t[k + 1] = e
    BY <1>2, <1>3, <1>5 DEF ExtensionOf
<1>8. e \in Entry
    BY <1>1, <1>3, <1>7, ElementOfSeq
<1>9. /\ Append(s, e) \in Seq(Entry) /\ Len(Append(s, e)) = k + 1
      /\ \A n \in 1 .. k : Append(s, e)[n] = s[n]
    <2>1. /\ Append(s, e) \in Seq(Entry) /\ Len(Append(s, e)) = Len(s) + 1
          /\ \A n \in 1 .. Len(s) : Append(s, e)[n] = s[n]
        BY <1>1, <1>8, AppendProperties
    <2> QED BY <1>3, <2>1
<1>10. \A n \in 1 .. (k + 1) : t[n] = Append(s, e)[n]
    <2>1. Append(s, e)[k + 1] = e
        <3>1. Append(s, e)[Len(s) + 1] = e
            BY <1>1, <1>8, AppendProperties
        <3> QED BY <1>3, <3>1
    <2>2. \A n \in 1 .. (k + 1) : n \in 1 .. k \/ n = k + 1
        OBVIOUS
    <2> QED BY <1>6, <1>7, <1>9, <2>1, <2>2
<1>11. t = Append(s, e)
    BY <1>1, <1>3, <1>9, <1>10, SeqEqual
<1> QED BY <1>1, <1>2, <1>8, <1>11

LEMMA StepEntries ==
    ASSUME Stepped, NoSnapshots'
    PROVE  EntriesKnown /\ EntriesKnown' /\ \A i \in Node : EntriesMove(i)
<1>1. EntriesKnown /\ EntriesKnown'
    BY StepKnown
<1> SUFFICES ASSUME NEW i \in Node PROVE EntriesMove(i)
    BY <1>1
<1>2. \/ LogChain(i)' = LogChain(i)
      \/ Grows(i)
      \/ \E m \in Calls : Accepts(i, m)
    BY DEF Stepped, MovesTraced, LogsTraced
<1> QED BY <1>1, <1>2, SameChain, GrownEntries DEF EntriesMove

-----------------------------------------------------------------------------
(* What a step adds to the histories. *)

Recorded ==
    /\ \A i \in Node : offered[i] \subseteq offered'[i]
    /\ \A i \in Node : state'[i] = "Leader" => Entries(i)' \in offered'[i]
    /\ \A i \in Node : \A s \in offered'[i] :
          s \in offered[i] \/ (state'[i] = "Leader" /\ s = Entries(i)')
    /\ \/ /\ \A i \in Node : commitIndex'[i] <= Len(committed)
          /\ committed' = committed
       \/ \E i \in Node :
             /\ Len(committed) < commitIndex'[i]
             /\ committed' = CommittedEntries(i)'

\* What the proofs about the histories start from.
Kept ==
    /\ Stepped /\ Recorded /\ NoSnapshots' /\ HistoryTypes /\ HistoryTypes'
    /\ OffersAgree /\ OffersLed /\ OffersWithin /\ LogsOffered /\ CallsOffered

\* The leader i has appended an entry, and so offered the log s.
Offered(i, s) ==
    /\ Grows(i)
    /\ \E e \in Entry : e.term = currentTerm[i] /\ s = Append(Entries(i), e)
    /\ s = Entries(i)'

LEMMA OffersGrow ==
    ASSUME Kept
    PROVE  /\ \A s \in Offers : s \in Seq(Entry)
           /\ \A i \in Node : Entries(i) \in Offers
           /\ \A s \in Offers : s \in Offers'
           /\ \A i \in Node : \A s \in offered'[i] : s \in Offers'
           /\ \A s \in Offers' : s \in Offers \/ \E i \in Node : Offered(i, s)
<1>1. \A s \in Offers : s \in Seq(Entry)
    <2>1. << >> \in Seq(Entry)
        OBVIOUS
    <2> QED BY <2>1 DEF Kept, HistoryTypes, Offers
<1>2. /\ \A s \in Offers : s \in Offers'
      /\ \A i \in Node : \A s \in offered'[i] : s \in Offers'
    BY DEF Kept, Recorded, Offers
<1>3. \A i \in Node : Entries(i) \in Offers
    BY DEF Kept, LogsOffered
<1>4. ASSUME NEW s \in Offers', s \notin Offers PROVE \E i \in Node : Offered(i, s)
    <2>1. PICK i \in Node : s \in offered'[i]
        BY <1>4 DEF Offers
    <2>2. state'[i] = "Leader" /\ s = Entries(i)'
        BY <1>4, <2>1 DEF Kept, Recorded, Offers
    <2>3. EntriesMove(i)
        BY StepEntries DEF Kept
    <2>4. Entries(i)' # Entries(i)
        BY <1>3, <1>4, <2>2
    <2>5. \A m \in Calls : ~Accepts(i, m)
        BY <2>2 DEF Accepts
    <2> QED BY <2>2, <2>3, <2>4, <2>5 DEF EntriesMove, Offered
<1> QED BY <1>1, <1>2, <1>3, <1>4

\* The log that i has just offered.
LEMMA OfferedIs ==
    ASSUME Kept, NEW i \in Node, NEW s, Offered(i, s)
    PROVE  /\ state[i] = "Leader" /\ Led(i, currentTerm[i]) /\ currentTerm[i] \in Nat
           /\ Entries(i) \in Offers /\ Entries(i) \in Seq(Entry)
           /\ Len(Entries(i)) = LastLogIndex(i)
           /\ s \in Seq(Entry) /\ s = Entries(i)'
           /\ \E k \in Nat : /\ k = Len(Entries(i)) /\ Len(s) = k + 1
                             /\ s[k + 1].term = currentTerm[i]
                             /\ \A n \in 1 .. k : s[n] = Entries(i)[n]
<1>1. state[i] = "Leader" /\ Led(i, currentTerm[i]) /\ currentTerm[i] \in Nat
    BY StepTypes, LeaderLed DEF Offered, Grows, Kept, Stepped, TermsRise
<1>2. Entries(i) \in Offers /\ Entries(i) \in Seq(Entry) /\ Len(Entries(i)) = LastLogIndex(i)
    BY OffersGrow, StepEntries DEF Kept, EntriesKnown, EntriesAt
<1>3. PICK e \in Entry : e.term = currentTerm[i] /\ s = Append(Entries(i), e)
    BY DEF Offered
<1>4. PICK r \in Seq(Entry), k \in Nat : r = Entries(i) /\ k = Len(r)
    BY <1>2, LenProperties
<1>5. /\ s \in Seq(Entry) /\ Len(s) = Len(r) + 1 /\ s[Len(r) + 1] = e
      /\ \A n \in 1 .. Len(r) : s[n] = r[n]
    BY <1>3, <1>4, AppendProperties
<1> QED BY <1>1, <1>2, <1>3, <1>4, <1>5 DEF Offered

LEMMA OffersAgreeKept ==
    ASSUME Kept
    PROVE  OffersAgree'
<1>1. ASSUME NEW i \in Node, NEW s, Offered(i, s), NEW t \in Seq(Entry),
             LogsAgree(Entries(i), t), LogsAgree(t, Entries(i)),
             \A n \in 1 .. Len(t) : t[n].term = currentTerm[i] => n <= LastLogIndex(i)
      PROVE  LogsAgree(s, t) /\ LogsAgree(t, s)
    <2>1. Entries(i) \in Seq(Entry) /\ Len(Entries(i)) = LastLogIndex(i)
        BY <1>1, OfferedIs
    <2>2. PICK e \in Entry : e.term = currentTerm[i] /\ s = Append(Entries(i), e)
        BY <1>1 DEF Offered
    <2> QED BY <1>1, <2>1, <2>2, AppendAgrees
<1>2. ASSUME NEW i \in Node, NEW s, Offered(i, s), NEW t \in Offers
      PROVE  LogsAgree(s, t) /\ LogsAgree(t, s)
    <2>1. t \in Seq(Entry) /\ Entries(i) \in Offers /\ state[i] = "Leader"
        BY <1>2, OffersGrow, OfferedIs
    <2>2. LogsAgree(Entries(i), t) /\ LogsAgree(t, Entries(i))
        BY <2>1 DEF Kept, OffersAgree
    <2>3. \A n \in 1 .. Len(t) : t[n].term = currentTerm[i] => n <= LastLogIndex(i)
        BY <2>1 DEF Kept, OffersWithin
    <2> QED BY <1>1, <1>2, <2>1, <2>2, <2>3
<1>3. ASSUME NEW i \in Node, NEW s, Offered(i, s), NEW k \in Node, NEW t, Offered(k, t)
      PROVE  LogsAgree(s, t)
    <2>1. CASE i = k
        <3>1. s = t
            BY <1>3, <2>1 DEF Offered
        <3> QED BY <3>1, LogsAgreeSelf
    <2>2. CASE i # k
        <3>1. /\ Entries(i) \in Offers /\ t \in Seq(Entry)
              /\ Entries(k) \in Offers /\ state[i] = "Leader" /\ Led(k, currentTerm[k])
            BY <1>3, OfferedIs
        <3>2. LogsAgree(t, Entries(i)) /\ LogsAgree(Entries(i), t)
            BY <1>2, <1>3, <3>1
        <3>3. currentTerm[k] # currentTerm[i]
            BY <2>2, <3>1, OneLed DEF OneLeads, Kept, Stepped
        <3>4. ASSUME NEW n \in 1 .. Len(t), t[n].term = currentTerm[i] PROVE n <= LastLogIndex(i)
            <4>1. PICK l \in Nat : /\ l = Len(Entries(k)) /\ Len(t) = l + 1
                                  /\ t[l + 1].term = currentTerm[k]
                                  /\ \A x \in 1 .. l : t[x] = Entries(k)[x]
                BY <1>3, OfferedIs
            <4>2. n \in 1 .. l
                BY <3>3, <3>4, <4>1
            <4>3. Entries(k)[n].term = currentTerm[i]
                BY <3>4, <4>1, <4>2
            <4> QED BY <3>1, <4>1, <4>2, <4>3 DEF Kept, OffersWithin
        <3> QED BY <1>1, <1>3, <3>1, <3>2, <3>4
    <2> QED BY <2>1, <2>2
<1> SUFFICES ASSUME NEW s \in Offers', NEW t \in Offers' PROVE LogsAgree(s, t)
    BY DEF OffersAgree, LogsAgree
<1>4. /\ s \in Offers \/ \E i \in Node : Offered(i, s)
      /\ t \in Offers \/ \E i \in Node : Offered(i, t)
    BY OffersGrow
<1> QED BY <1>2, <1>3, <1>4 DEF Kept, OffersAgree

\* The entries that are offered are of terms that had a leader already.
LEMMA OffersLedBefore ==
    ASSUME Kept, NEW s \in Offers', NEW n \in 1 .. Len(s)
    PROVE  s[n].term \in Nat /\ \E k \in Node : Led(k, s[n].term)
<1>1. CASE s \in Offers
    <2>1. s \in Seq(Entry)
        BY <1>1, OffersGrow
    <2>2. s[n] \in Entry
        BY <2>1, ElementOfSeq
    <2> QED BY <1>1, <2>2 DEF Entry, Kept, OffersLed
<1>2. ASSUME NEW i \in Node, Offered(i, s)
      PROVE  s[n].term \in Nat /\ \E k \in Node : Led(k, s[n].term)
    <2>1. PICK l \in Nat : /\ l = Len(Entries(i)) /\ Len(s) = l + 1
                          /\ s[l + 1].term = currentTerm[i]
                          /\ \A x \in 1 .. l : s[x] = Entries(i)[x]
        BY <1>2, OfferedIs
    <2>2. /\ Entries(i) \in Offers /\ Led(i, currentTerm[i]) /\ currentTerm[i] \in Nat
          /\ Entries(i) \in Seq(Entry)
        BY <1>2, OfferedIs
    <2>3. CASE n = l + 1
        BY <2>1, <2>2, <2>3
    <2>4. CASE n # l + 1
        <3>1. n \in 1 .. l
            BY <2>1, <2>4
        <3>2. Entries(i)[n] \in Entry
            BY <2>1, <2>2, <3>1, ElementOfSeq
        <3> QED BY <2>1, <2>2, <3>1, <3>2 DEF Entry, Kept, OffersLed
    <2> QED BY <2>3, <2>4
<1> QED BY <1>1, <1>2, OffersGrow

LEMMA OffersLedKept ==
    ASSUME Kept
    PROVE  OffersLed'
<1> SUFFICES ASSUME NEW s \in Offers', NEW n \in 1 .. Len(s)
             PROVE  \E k \in Node : Led(k, s[n].term)'
    BY DEF OffersLed, Led
<1>1. PICK t \in Nat, k \in Node : t = s[n].term /\ Led(k, t)
    BY OffersLedBefore
<1>2. Led(k, t)'
    BY <1>1, StepTypes, LedKept DEF Kept, Stepped
<1> QED BY <1>1, <1>2

LEMMA OffersWithinKept ==
    ASSUME Kept
    PROVE  OffersWithin'
<1> SUFFICES ASSUME NEW i \in Node, state'[i] = "Leader", NEW s \in Offers',
                    NEW n \in 1 .. Len(s), s[n].term = currentTerm'[i]
             PROVE  n <= LastLogIndex(i)'
    BY DEF OffersWithin
<1>1. PICK k \in Node : Led(k, currentTerm'[i])
    BY OffersLedBefore
<1>2. state[i] = "Leader" /\ currentTerm'[i] = currentTerm[i] /\ Longer(i)
    BY <1>1, OldLeader DEF Kept
<1>3. /\ LastLogIndex(i) <= LastLogIndex(i)' /\ LastLogIndex(i) \in Nat /\ LastLogIndex(i)' \in Nat
      /\ EntriesKnown /\ EntriesKnown'
    BY <1>2, LongerLast, StepEntries, StepTypes DEF Kept, LastIndexNat
<1>4. CASE s \in Offers
    <2>1. n <= LastLogIndex(i)
        BY <1>2, <1>4 DEF Kept, OffersWithin
    <2> QED BY <1>3, <2>1
<1>5. ASSUME NEW j \in Node, Offered(j, s) PROVE n <= LastLogIndex(i)'
    <2>1. PICK l \in Nat : /\ l = Len(Entries(j)) /\ Len(s) = l + 1
                          /\ s[l + 1].term = currentTerm[j]
                          /\ \A x \in 1 .. l : s[x] = Entries(j)[x]
        BY <1>5, OfferedIs
    <2>2. Entries(j) \in Offers /\ Led(j, currentTerm[j]) /\ s = Entries(j)'
        BY <1>5, OfferedIs
    <2>3. CASE n = l + 1
        <3>1. j = i
            BY <1>2, <2>1, <2>2, <2>3, OneLed DEF OneLeads, Kept, Stepped
        <3>2. n \in 1 .. Len(Entries(i)') /\ Len(Entries(i)') = LastLogIndex(i)'
            BY <1>3, <2>2, <3>1 DEF EntriesKnown, EntriesAt
        <3> QED BY <1>3, <3>2
    <2>4. CASE n # l + 1
        <3>1. n \in 1 .. l
            BY <2>1, <2>4
        <3>2. Entries(j)[n].term = currentTerm[i]
            BY <1>2, <2>1, <3>1
        <3>3. n <= LastLogIndex(i)
            BY <1>2, <2>1, <2>2, <3>1, <3>2 DEF Kept, OffersWithin
        <3> QED BY <1>3, <3>3
    <2> QED BY <2>3, <2>4
<1> QED BY <1>4, <1>5, OffersGrow

\* A follower's log becomes one that the caller of m has had.
LEMMA JoinOffered ==
    ASSUME Kept, NEW j \in Node, NEW m \in Calls, Accepts(j, m)
    PROVE  m.from \in Node /\ Entries(j)' \in offered[m.from]
<1>1. PICK s \in offered[m.from] : EndOf(CallChain(m), s)
    BY DEF Kept, CallsOffered
<1>2. PICK c, old, new : c = CallChain(m) /\ old = LogChain(j) /\ new = LogChain(j)'
    OBVIOUS
<1>3. JoinOf(new, old, c) /\ c.base \in Nat /\ c.last \in Nat /\ c.base <= c.last /\ m.from \in Node
    BY <1>2, CallIs DEF Accepts, Kept, Stepped
<1>4. /\ s \in Offers /\ Entries(j) \in Offers /\ LogsAgree(Entries(j), s)
    <2>1. s \in Offers
        BY <1>1, <1>3 DEF Offers
    <2>2. Entries(j) \in Offers
        BY OffersGrow
    <2> QED BY <2>1, <2>2 DEF Kept, OffersAgree
<1>5. PICK r \in Seq(Entry), q \in Seq(Entry), l \in Nat :
          r = Entries(j)' /\ q = Entries(j) /\ l = LastLogIndex(j)
    BY StepEntries DEF Kept, EntriesKnown, EntriesAt
<1>6. /\ Len(r) = c.last /\ \A n \in 1 .. c.last : r[n] = new.at[n]
      /\ new.base = 0 /\ new.last = c.last
    <2>1. EntriesAt(j)'
        BY StepEntries DEF Kept, EntriesKnown
    <2>2. new.base = 0 /\ new.last = LastLogIndex(j)'
        BY <1>2, <2>1 DEF EntriesAt
    <2>3. new.last = c.last
        BY <1>3 DEF JoinOf
    <2> QED BY <1>2, <1>5, <2>1, <2>2, <2>3 DEF EntriesAt
<1>7. Len(q) = l /\ old.base = 0 /\ old.last = l /\ \A n \in 1 .. l : q[n] = old.at[n]
    BY <1>2, <1>5, StepEntries DEF Kept, EntriesKnown, EntriesAt
<1>8. Len(s) = c.last /\ s \in Seq(Entry)
    BY <1>1, <1>2, <1>4, OffersGrow DEF EndOf
<1>9. ASSUME NEW n \in 1 .. c.last PROVE r[n] = s[n]
    <2>1. n \in Owned(new)
        BY <1>6 DEF Owned
    <2>2. CASE ~(n <= c.base)
        <3>1. n \in Owned(c)
            BY <1>3, <2>2 DEF Owned
        <3> QED BY <1>1, <1>2, <1>3, <1>6, <2>1, <2>2, <3>1 DEF EndOf, JoinOf
    <2>3. CASE n <= c.base
        <3>1. c.base \in 1 .. l
            BY <1>3, <1>7, <2>3 DEF JoinOf, Span
        <3>2. c.base \in 1 .. Len(q) /\ c.base <= Len(s) /\ n \in 1 .. c.base /\ n \in 1 .. l
            BY <1>3, <1>7, <1>8, <2>3, <3>1
        <3>3. q[c.base].term = s[c.base].term
            BY <1>1, <1>2, <1>3, <1>7, <3>1 DEF EndOf, JoinOf
        <3>4. q[n] = s[n]
            BY <1>4, <1>5, <3>2, <3>3 DEF LogsAgree
        <3> QED BY <1>3, <1>6, <1>7, <2>1, <2>3, <3>2, <3>4 DEF JoinOf
    <2> QED BY <2>2, <2>3
<1>10. r = s
    BY <1>6, <1>8, <1>9, SeqEqual
<1> QED BY <1>1, <1>3, <1>5, <1>10

LEMMA LogsOfferedKept ==
    ASSUME Kept
    PROVE  LogsOffered'
<1> SUFFICES ASSUME NEW i \in Node
             PROVE  Entries(i)' \in Offers' /\ (state'[i] = "Leader" => Entries(i)' \in offered'[i])
    BY DEF LogsOffered
<1>1. state'[i] = "Leader" => Entries(i)' \in offered'[i]
    BY DEF Kept, Recorded
<1>2. CASE state'[i] = "Leader"
    BY <1>1, <1>2, OffersGrow
<1>3. CASE state'[i] # "Leader"
    <2>1. ~Grows(i)
        BY <1>3 DEF Grows
    <2>2. EntriesMove(i)
        BY StepEntries DEF Kept
    <2>3. CASE Entries(i)' = Entries(i)
        BY <1>3, <2>3, OffersGrow
    <2>4. ASSUME NEW m \in Calls, Accepts(i, m) PROVE Entries(i)' \in Offers'
        <3>1. m.from \in Node /\ Entries(i)' \in offered[m.from]
            BY <2>4, JoinOffered
        <3>2. Entries(i)' \in offered'[m.from]
            BY <3>1 DEF Kept, Recorded
        <3> QED BY <3>1, <3>2, OffersGrow
    <2> QED BY <1>1, <2>1, <2>2, <2>3, <2>4 DEF EntriesMove
<1> QED BY <1>1, <1>2, <1>3

LEMMA CallsOfferedKept ==
    ASSUME Kept
    PROVE  CallsOffered'
<1>1. \A m : CallChain(m)' = CallChain(m)
    BY DEF CallChain
<1> SUFFICES ASSUME NEW m \in Calls'
             PROVE  \E s \in offered'[m.from] : EndOf(CallChain(m), s)
    BY <1>1 DEF CallsOffered, EndOf, Owned
<1>2. (\E k \in Calls : SameCall(k, m)) \/ (\E i \in Node : Sends(i, m))
    BY DEF Kept, Stepped, MovesTraced, CallsMade
<1>3. ASSUME NEW k \in Calls, SameCall(k, m)
      PROVE  \E s \in offered'[m.from] : EndOf(CallChain(m), s)
    <2>1. k.from = m.from /\ CallChain(k) = CallChain(m) /\ k.from \in Node
        BY <1>3, CallIs DEF SameCall, Calls, Kept
    <2>2. PICK s \in offered[k.from] : EndOf(CallChain(k), s)
        BY DEF Kept, CallsOffered
    <2> QED BY <2>1, <2>2 DEF Kept, Recorded
<1>4. ASSUME NEW i \in Node, Sends(i, m)
      PROVE  \E s \in offered'[m.from] : EndOf(CallChain(m), s)
    <2>1. m.from = i /\ state[i] = "Leader" /\ SuffixOf(CallChain(m), LogChain(i))
        BY <1>4 DEF Sends
    <2>2. Entries(i) \in offered'[i]
        BY <2>1 DEF Kept, LogsOffered, Recorded
    <2>3. PICK c, d, s : c = CallChain(m) /\ d = LogChain(i) /\ s = Entries(i)
        OBVIOUS
    <2>4. PICK l \in Nat : l = LastLogIndex(i)
        BY StepEntries DEF Kept, EntriesKnown, EntriesAt
    <2>5. /\ Len(s) = l /\ d.base = 0 /\ d.last = l /\ Owned(d) = 1 .. l
          /\ \A n \in 1 .. l : s[n] = d.at[n]
        BY <2>3, <2>4, StepEntries DEF Kept, EntriesKnown, EntriesAt
    <2>6. /\ c.base \in 0 .. l /\ c.last = l /\ c.base \in Span(c)
          /\ c.at[c.base].term = d.at[c.base].term
          /\ \A n \in Owned(c) : n \in Owned(d) /\ c.at[n] = d.at[n]
        BY <2>1, <2>3, <2>5 DEF SuffixOf, Span, IsChain
    <2>7. c.base > 0 => s[c.base].term = c.at[c.base].term
        BY <2>5, <2>6
    <2>8. \A n \in Owned(c) : s[n] = c.at[n]
        BY <2>5, <2>6
    <2>9. EndOf(c, s)
        BY <2>5, <2>6, <2>7, <2>8 DEF EndOf
    <2> QED BY <2>1, <2>2, <2>3, <2>9
<1> QED BY <1>2, <1>3, <1>4

-----------------------------------------------------------------------------
(* The steps, as the replicated log sees them. *)

\* At most i changes its role; nobody's log, commitIndex or lastApplied changes.
Quiet(i) ==
    /\ LogStill
    /\ UNCHANGED <<commitIndex, lastApplied>>
    /\ \A k \in Node \ {i} : state'[k] = state[k]
    /\ \A k \in Node : state[k] = "Leader" => matchIndex'[k] = matchIndex[k]

\* A leader hears of an entry that a follower has.
Hears(m) ==
    /\ HandleAppendEntriesReply(m)
    /\ state[m.from] = "Leader"
    /\ matchIndex' = [matchIndex EXCEPT ![m.from][m.to] = m.match]
    /\ UpdateCommitIndex(m.from)

Kinds ==
    \/ \E i \in Node : Quiet(i)
    \/ \E i \in Node : \E command \in Value : Start(i, command)
    \/ \E i \in Node : ApplierTake(i)
    \/ \E i \in Node : Restart(i)
    \/ \E m \in rpcs : AcceptAppendEntries(m)
    \/ \E m \in rpcs : Hears(m)

LEMMA ElectedQuiet ==
    ASSUME TypeOK, NEW i \in Node, BecomeLeader(i), state[i] # "Leader", LogStill,
           UNCHANGED <<commitIndex, lastApplied>>
    PROVE  Quiet(i)
<1>1. /\ state' = [state EXCEPT ![i] = "Leader"]
      /\ \A k \in Node \ {i} : matchIndex'[k] = matchIndex[k]
    BY DEF BecomeLeader, TypeOK
<1>2. \A k \in Node \ {i} : state'[k] = state[k]
    BY <1>1 DEF TypeOK
<1> QED BY <1>1, <1>2 DEF Quiet

LEMMA SameQuiet ==
    ASSUME NEW i \in Node, LogStill, UNCHANGED <<commitIndex, lastApplied, leaderVars>>,
           \A k \in Node \ {i} : state'[k] = state[k]
    PROVE  Quiet(i)
BY DEF Quiet, leaderVars

LEMMA StepKinds ==
    ASSUME Stepped
    PROVE  Kinds
<1>1. TypeOK /\ NoSnapshots /\ FollowersWithin
    BY StepTypes DEF Stepped, Bookkeeping
<1>2. Moves
    BY <1>1, StepMoves DEF Stepped
<1>3. ASSUME NEW i \in Node, NodeMoves(i) PROVE Kinds
    <2>1. CASE ElectionTimeout(i)
        <3>1. /\ state[i] # "Leader" /\ LogStill /\ UNCHANGED <<commitIndex, lastApplied>>
              /\ \/ BecomeLeader(i)
                 \/ state' = [state EXCEPT ![i] = "Candidate"] /\ UNCHANGED leaderVars
            BY <2>1 DEF ElectionTimeout, LogStill, commitVars
        <3>2. CASE BecomeLeader(i)
            BY <1>1, <3>1, <3>2, ElectedQuiet DEF Kinds
        <3>3. CASE state' = [state EXCEPT ![i] = "Candidate"] /\ UNCHANGED leaderVars
            <4>1. \A k \in Node \ {i} : state'[k] = state[k]
                BY <1>1, <3>3 DEF TypeOK
            <4> QED BY <3>1, <3>3, <4>1, SameQuiet DEF Kinds
        <3> QED BY <3>1, <3>2, <3>3
    <2>2. CASE QuietTick(i) \/ (\E j \in Node : SendAppendEntries(i, j)) \/ ServiceApply(i)
        <3>1. LogStill /\ UNCHANGED <<state, commitIndex, lastApplied, leaderVars>>
            BY <2>2 DEF QuietTick, SendAppendEntries, ServiceApply, persistentVars, roleVars,
                        commitVars, LogStill
        <3> QED BY <3>1, SameQuiet DEF Kinds
    <2> QED BY <1>3, <2>1, <2>2 DEF NodeMoves, Kinds
<1>4. ASSUME NEW m \in rpcs, CallMoves(m) PROVE Kinds
    <2>1. m.from \in Node /\ m.to \in Node
        BY <1>1, RpcTypes DEF TypeOK
    <2>2. CASE RejectStale(m) \/ Lose(m)
        <3>1. LogStill /\ UNCHANGED <<state, commitIndex, lastApplied, leaderVars>>
            BY <2>2 DEF RejectStale, Lose, persistentVars, roleVars, commitVars, LogStill
        <3> QED BY <2>1, <3>1, SameQuiet DEF Kinds
    <2>3. CASE HandleRequestVote(m) \/ RejectAppendEntries(m)
        <3>1. /\ LogStill /\ UNCHANGED <<commitIndex, lastApplied, leaderVars>>
              /\ \E r : state' = [state EXCEPT ![m.to] = r]
            BY <2>3 DEF HandleRequestVote, RejectAppendEntries, HearLeader, BecomeFollower,
                        commitVars, LogStill
        <3>2. \A k \in Node \ {m.to} : state'[k] = state[k]
            BY <1>1, <3>1 DEF TypeOK
        <3> QED BY <2>1, <3>1, <3>2, SameQuiet DEF Kinds
    <2>4. CASE HandleNewerTerm(m)
        <3>1. /\ LogStill /\ UNCHANGED <<commitIndex, lastApplied, leaderVars>>
              /\ state' = [state EXCEPT ![m.from] = "Follower"]
            BY <2>4 DEF HandleNewerTerm, StepDown, BecomeFollower, commitVars, LogStill
        <3>2. \A k \in Node \ {m.from} : state'[k] = state[k]
            BY <1>1, <3>1 DEF TypeOK
        <3> QED BY <2>1, <3>1, <3>2, SameQuiet DEF Kinds
    <2>5. CASE HandleRequestVoteReply(m)
        <3>1. /\ LogStill /\ UNCHANGED <<commitIndex, lastApplied>>
              /\ \/ state[m.from] = "Candidate" /\ BecomeLeader(m.from)
                 \/ UNCHANGED <<state, leaderVars>>
            BY <2>5 DEF HandleRequestVoteReply, persistentVars, commitVars, LogStill
        <3> QED BY <1>1, <2>1, <3>1, ElectedQuiet, SameQuiet DEF Kinds
    <2>6. CASE HandleAppendEntriesReply(m)
        <3>1. LogStill /\ UNCHANGED <<state, lastApplied>>
            BY <2>6 DEF HandleAppendEntriesReply, persistentVars, roleVars, LogStill
        <3>2. \/ UNCHANGED <<matchIndex, commitIndex>>
              \/ Hears(m)
            BY <2>6 DEF HandleAppendEntriesReply, leaderVars, Hears
        <3>3. UNCHANGED <<matchIndex, commitIndex>> => Quiet(m.from)
            BY <3>1 DEF Quiet
        <3> QED BY <2>1, <3>2, <3>3 DEF Kinds
    <2> QED BY <1>4, <2>2, <2>3, <2>4, <2>5, <2>6 DEF CallMoves, Kinds
<1>5. CASE UNCHANGED vars
    <2>1. PICK i \in Node : TRUE
        BY NodeAssumption
    <2>2. LogStill /\ UNCHANGED <<state, commitIndex, lastApplied, leaderVars>>
        BY <1>5 DEF vars, persistentVars, roleVars, commitVars, LogStill
    <2> QED BY <2>2, SameQuiet DEF Kinds
<1> QED BY <1>2, <1>3, <1>4, <1>5 DEF Moves

\* A step changes the commitIndex of at most one node.
LEMMA OneCommits ==
    ASSUME Stepped
    PROVE  \E i \in Node : \A k \in Node \ {i} : commitIndex'[k] = commitIndex[k]
<1>1. commitIndex \in [Node -> Nat]
    BY StepTypes DEF TypeOK
<1>2. PICK i \in Node : TRUE
    BY NodeAssumption
<1>3. UNCHANGED commitIndex => \A k \in Node \ {i} : commitIndex'[k] = commitIndex[k]
    OBVIOUS
<1>4. ASSUME NEW j \in Node, NEW n, commitIndex' = [commitIndex EXCEPT ![j] = n]
      PROVE  \A k \in Node \ {j} : commitIndex'[k] = commitIndex[k]
    BY <1>1, <1>4
<1>5. ASSUME NEW j \in Node, UpdateCommitIndex(j)
      PROVE  \E n : commitIndex' = [commitIndex EXCEPT ![j] = n]
    BY <1>5 DEF UpdateCommitIndex
<1>6. CASE (\E j \in Node : Quiet(j)) \/ (\E j \in Node : ApplierTake(j))
    BY <1>2, <1>3, <1>6 DEF Quiet, ApplierTake
<1>7. CASE \E j \in Node : \E command \in Value : Start(j, command)
    BY <1>4, <1>5, <1>7 DEF Start
<1>8. CASE \E j \in Node : Restart(j)
    BY <1>4, <1>8 DEF Restart
<1>9. ASSUME NEW m \in rpcs, AcceptAppendEntries(m) \/ Hears(m)
      PROVE  \E j \in Node : \A k \in Node \ {j} : commitIndex'[k] = commitIndex[k]
    <2>1. m.from \in Node /\ m.to \in Node
        BY StepTypes, RpcTypes DEF TypeOK
    <2> QED BY <1>4, <1>5, <1>9, <2>1 DEF AcceptAppendEntries, Hears
<1> QED BY <1>6, <1>7, <1>8, <1>9, StepKinds DEF Kinds

-----------------------------------------------------------------------------
(* What is committed. *)

KeptMore == Kept /\ CommitInv /\ CommitInv' /\ CommittedLasts

\* What the node i knows to be committed after the step, and nobody knew before.
NewlyCommits(i) ==
    /\ CountsCommit(i)
    /\ commitIndex'[i] \in Nat /\ Len(committed) < commitIndex'[i]
    /\ commitIndex'[i] <= Len(Entries(i)')
    /\ committed' = SubSeq(Entries(i)', 1, commitIndex'[i])
    /\ Len(committed') = commitIndex'[i]
    /\ \A n \in 1 .. commitIndex'[i] : committed'[n] = Entries(i)'[n]
    /\ \A k \in Node : commitIndex'[k] <= commitIndex'[i]

\* The entry at the new commitIndex of i.
LEMMA CommittedNow ==
    ASSUME KeptMore, NEW i \in Node, NEW n \in Nat \ {0}, n = commitIndex'[i]
    PROVE  /\ n \in 1 .. Len(Entries(i)') /\ Entries(i)' \in Seq(Entry)
           /\ \E e : e = Entries(i)'[n] /\ Has(i, n, e)' /\ Secure(n, e)'
<1>1. PICK c, s : c = LogChain(i)' /\ s = Entries(i)'
    OBVIOUS
<1>2. \E e : e = c.at[n] /\ Has(i, n, e)' /\ Secure(n, e)'
    BY <1>1 DEF KeptMore, CommitInv, CommitsSecure
<1>3. /\ s \in Seq(Entry) /\ Owned(c) = 1 .. Len(s) /\ \A k \in 1 .. Len(s) : s[k] = c.at[k]
    BY <1>1, StepEntries DEF KeptMore, Kept, EntriesKnown, EntriesAt, Owned
<1>4. n \in 1 .. Len(s)
    BY <1>1, <1>2, <1>3 DEF Has, Holds, Owned
<1> QED BY <1>1, <1>2, <1>3, <1>4

LEMMA CommittedGrows ==
    ASSUME KeptMore
    PROVE  /\ Len(committed) \in Nat
           /\ \/ committed' = committed /\ \A i \in Node : commitIndex'[i] <= Len(committed)
              \/ \E i \in Node : NewlyCommits(i)
<1>1. PICK l \in Nat : l = Len(committed)
    BY LenProperties DEF KeptMore, Kept, HistoryTypes
<1>2. /\ \A i \in Node : commitIndex[i] <= l
      /\ \A m \in Calls : m.leaderCommit <= l
    BY <1>1 DEF KeptMore, CommittedLasts
<1>3. ASSUME NEW i \in Node, l < commitIndex'[i], committed' = CommittedEntries(i)'
      PROVE  NewlyCommits(i)
    <2>1. PICK n \in Nat, b \in Nat : n = commitIndex'[i] /\ b = commitIndex[i]
        BY StepTypes DEF KeptMore, Kept, TypeOK
    <2>2. n # 0 /\ b < n
        BY <1>1, <1>2, <1>3, <2>1
    <2>3. \A m \in Calls : commitIndex'[i] # NewCommitIndex(m, i)
        <3> SUFFICES ASSUME NEW m \in Calls, commitIndex'[i] = NewCommitIndex(m, i) PROVE FALSE
            OBVIOUS
        <3>1. PICK x \in Nat, last \in Nat : x = m.leaderCommit /\ last = LastLogIndex(i)'
            BY CallIs, StepTypes DEF KeptMore, Kept, LastIndexNat
        <3>2. n = IF x <= b THEN b ELSE IF x < last THEN x ELSE last
            BY <2>1, <3>1 DEF NewCommitIndex
        <3> QED BY <1>1, <1>2, <1>3, <2>1, <3>1, <3>2
    <2>4. CountsCommit(i)
        BY <2>1, <2>2, <2>3 DEF KeptMore, Kept, Stepped, MovesTraced, CommitsTraced, Restarted
    <2>5. PICK s \in Seq(Entry) : s = Entries(i)' /\ n \in 1 .. Len(s)
        BY <2>1, <2>2, CommittedNow
    <2>6. committed' = SubSeq(s, 1, n)
        BY <1>3, <2>1, <2>5 DEF CommittedEntries
    <2>7. Len(SubSeq(s, 1, n)) = n /\ \A k \in 1 .. n : SubSeq(s, 1, n)[k] = s[k]
        <3>1. \A k \in 1 .. n : s[k] \in Entry
            BY <2>5, ElementOfSeq
        <3>2. /\ Len(SubSeq(s, 1, n)) = IF 1 <= n THEN n - 1 + 1 ELSE 0
              /\ \A k \in 1 .. n - 1 + 1 : SubSeq(s, 1, n)[k] = s[1 + k - 1]
            BY <3>1, SubSeqProperties
        <3> QED BY <2>2, <3>2
    <2>8. \A k \in Node : commitIndex'[k] <= n
        <3>1. \A k \in Node \ {i} : commitIndex'[k] = commitIndex[k]
            <4>1. PICK j \in Node : \A k \in Node \ {j} : commitIndex'[k] = commitIndex[k]
                BY OneCommits DEF KeptMore, Kept
            <4>2. j = i
                BY <2>1, <2>2, <4>1
            <4> QED BY <4>1, <4>2
        <3>2. \A k \in Node : commitIndex[k] \in Nat
            BY StepTypes DEF KeptMore, Kept, TypeOK
        <3> QED BY <1>1, <1>2, <1>3, <2>1, <3>1, <3>2
    <2> QED BY <1>1, <1>3, <2>1, <2>4, <2>5, <2>6, <2>7, <2>8 DEF NewlyCommits
<1> QED BY <1>1, <1>3 DEF KeptMore, Kept, Recorded

LEMMA CommittedLastsKept ==
    ASSUME KeptMore
    PROVE  CommittedLasts'
<1>1. PICK l \in Nat, r \in Nat : l = Len(committed) /\ r = Len(committed')
    BY LenProperties DEF KeptMore, Kept, HistoryTypes
<1>2. l <= r /\ \A i \in Node : commitIndex'[i] <= r
    BY <1>1, CommittedGrows DEF NewlyCommits
<1>3. ASSUME NEW m \in Calls' PROVE m.leaderCommit <= r
    <2>1. ASSUME NEW k \in Calls, SameCall(k, m) PROVE m.leaderCommit <= r
        <3>1. k.leaderCommit = m.leaderCommit /\ k.leaderCommit <= l /\ k.leaderCommit \in Nat
            BY <1>1, <2>1, CallIs DEF SameCall, Calls, KeptMore, Kept, CommittedLasts
        <3> QED BY <1>1, <1>2, <3>1
    <2>2. ASSUME NEW i \in Node, Sends(i, m) PROVE m.leaderCommit <= r
        <3>1. m.leaderCommit = commitIndex[i] /\ commitIndex[i] <= l /\ commitIndex[i] \in Nat
            BY <1>1, <2>2, StepTypes DEF Sends, KeptMore, Kept, CommittedLasts, TypeOK
        <3> QED BY <1>1, <1>2, <3>1
    <2> QED BY <2>1, <2>2 DEF KeptMore, Kept, Stepped, MovesTraced, CallsMade
<1>4. committed' # << >> => \E e : e = committed'[r] /\ Secure(r, e)'
    <2>1. CASE committed' = committed
        <3>1. l = r
            BY <1>1, <2>1
        <3>2. committed # << >> => Secure(l, committed[l])
            BY <1>1 DEF KeptMore, CommittedLasts
        <3>3. ASSUME NEW e, e = committed[l], committed # << >> PROVE Secure(l, e)'
            BY <3>2, <3>3, SecureKept DEF KeptMore, Kept
        <3> QED BY <2>1, <3>1, <3>3
    <2>2. ASSUME NEW i \in Node, NewlyCommits(i) PROVE \E e : e = committed'[r] /\ Secure(r, e)'
        <3>1. r = commitIndex'[i] /\ r \in Nat \ {0} /\ committed'[r] = Entries(i)'[r]
            BY <1>1, <2>2 DEF NewlyCommits
        <3>2. \E e : e = Entries(i)'[r] /\ Secure(r, e)'
            BY <3>1, CommittedNow
        <3> QED BY <3>1, <3>2
    <2> QED BY <2>1, <2>2, CommittedGrows
<1>5. \E s \in Offers' : r <= Len(s) /\ \A n \in 1 .. r : s[n] = committed'[n]
    <2>1. CASE committed' = committed
        <3>1. \E s \in Offers : l <= Len(s) /\ \A n \in 1 .. l : s[n] = committed[n]
            BY <1>1 DEF KeptMore, CommittedLasts
        <3> QED BY <1>1, <2>1, <3>1, OffersGrow DEF KeptMore
    <2>2. ASSUME NEW i \in Node, NewlyCommits(i)
          PROVE  \E s \in Offers' : r <= Len(s) /\ \A n \in 1 .. r : s[n] = committed'[n]
        <3>1. /\ r = commitIndex'[i] /\ r <= Len(Entries(i)')
              /\ \A n \in 1 .. r : committed'[n] = Entries(i)'[n]
            BY <1>1, <2>2 DEF NewlyCommits
        <3>2. Entries(i)' \in Offers'
            BY LogsOfferedKept DEF KeptMore, LogsOffered
        <3> QED BY <3>1, <3>2
    <2> QED BY <2>1, <2>2, CommittedGrows
<1> QED BY <1>1, <1>2, <1>3, <1>4, <1>5 DEF CommittedLasts

\* A log with the last committed entry in its place has the others, too.
LEMMA LastShared ==
    ASSUME EntriesKnown, OffersAgree, LogsOffered, CommittedLasts, NEW j \in Node,
           NEW l \in Nat \ {0}, l = Len(committed), Has(j, l, committed[l])
    PROVE  /\ l <= Len(Entries(j)) /\ Entries(j) \in Seq(Entry)
           /\ \A k \in 1 .. l : Entries(j)[k] = committed[k] /\ Has(j, k, committed[k])
<1>1. PICK s \in Offers : l <= Len(s) /\ \A n \in 1 .. l : s[n] = committed[n]
    BY DEF CommittedLasts
<1>2. PICK r \in Seq(Entry) : r = Entries(j)
    BY DEF EntriesKnown, EntriesAt
<1>3. l \in 1 .. Len(r) /\ r[l] = committed[l]
    BY <1>2, HasEntry
<1>4. LogsAgree(r, s)
    BY <1>1, <1>2 DEF OffersAgree, LogsOffered
<1>5. r[l].term = s[l].term
    BY <1>1, <1>3
<1>6. \A k \in 1 .. l : r[k] = s[k]
    BY <1>1, <1>3, <1>4, <1>5 DEF LogsAgree
<1>7. l <= Len(r) /\ Len(r) \in Nat
    BY <1>2, <1>3, LenProperties
<1>8. \A k \in 1 .. l : k \in 1 .. Len(r)
    BY <1>7
<1> QED BY <1>1, <1>2, <1>6, <1>7, <1>8, HasEntry

\* What a node knows to be committed is in its log.
LEMMA KnownCommitted ==
    ASSUME CommitInv, EntriesKnown, OffersAgree, LogsOffered, CommittedLasts,
           NEW l \in Nat, l = Len(committed), committed \in Seq(Entry), NEW i \in Node,
           NEW k \in Nat \ {0}, k <= commitIndex[i]
    PROVE  k <= l /\ k \in 1 .. Len(Entries(i)) /\ Entries(i)[k] = committed[k]
<1>1. PICK n \in Nat : n = commitIndex[i]
    BY CommitTypes
<1>2. n <= l /\ l # 0 /\ k <= l
    BY <1>1 DEF CommittedLasts
<1>3. PICK e : Has(i, n, e) /\ Secure(n, e)
    BY <1>1, CommittedEntry
<1>4. committed # << >>
    BY <1>2
<1>5. Secure(l, committed[l])
    BY <1>4 DEF CommittedLasts
<1>6. PICK Q \in SUBSET Node : IsMajority(Q) /\ \A j \in Q : Has(j, n, e)
    BY <1>3 DEF Secure, KeptByMajority, Keeps
<1>7. PICK R \in SUBSET Node : IsMajority(R) /\ \A j \in R : Has(j, l, committed[l])
    BY <1>5 DEF Secure, KeptByMajority, Keeps
<1>8. PICK j \in Node : Has(j, n, e) /\ Has(j, l, committed[l])
    BY <1>6, <1>7, MajoritiesMeet
<1>9. Has(j, k, committed[k])
    BY <1>2, <1>8, LastShared
<1>10. PICK x : Has(i, k, x)
    <2>1. n \in Owned(LogChain(i)) /\ Owned(LogChain(i)) = 1 .. LastLogIndex(i)
          /\ LastLogIndex(i) \in Nat
        BY <1>3 DEF Has, Holds, EntriesKnown, EntriesAt
    <2>2. k \in Owned(LogChain(i))
        BY <1>1, <2>1
    <2> QED BY <2>2 DEF Has, Holds
<1>11. Has(j, k, x)
    BY <1>1, <1>3, <1>8, <1>10, SharedBefore
<1>12. x = committed[k]
    BY <1>9, <1>11 DEF Has, Holds
<1> QED BY <1>2, <1>10, <1>12, HasEntry

-----------------------------------------------------------------------------
(* A leader counts when it hears of an entry, and at no other time. *)

\* The nodes that the leader i counts for the entry at n.
Counted(i, n) == {j \in Node : j = i \/ matchIndex[i][j] >= n}

LEMMA NoneAlone ==
    ASSUME Cardinality(Node) > 1, NEW i \in Node
    PROVE  ~IsMajority({i})
<1> SUFFICES ASSUME IsMajority({i}) PROVE FALSE
    OBVIOUS
<1>1. Node = {i}
    BY MajorityOfOne
<1>2. Cardinality({i}) = 1
    BY FS_Singleton
<1>3. Cardinality(Node) = 1
    BY <1>1, <1>2
<1> QED BY <1>3

LEMMA LeaderKinds ==
    ASSUME Stepped, NEW i \in Node, state[i] = "Leader", state'[i] = "Leader"
    PROVE  \/ matchIndex'[i] = matchIndex[i] /\ commitIndex'[i] = commitIndex[i]
           \/ \E command \in Value : Start(i, command)
           \/ \E m \in rpcs : m.from = i /\ Hears(m)
<1>1. /\ state \in [Node -> {"Follower", "Candidate", "Leader"}]
      /\ matchIndex \in [Node -> [Node -> Nat]] /\ commitIndex \in [Node -> Nat]
    BY StepTypes DEF TypeOK
<1>2. ASSUME NEW k \in Node, NEW command \in Value, Start(k, command), k # i
      PROVE  matchIndex'[i] = matchIndex[i] /\ commitIndex'[i] = commitIndex[i]
    <2>1. UNCHANGED matchIndex /\ \E n : commitIndex' = [commitIndex EXCEPT ![k] = n]
        BY <1>2 DEF Start, leaderVars, UpdateCommitIndex
    <2> QED BY <1>1, <1>2, <2>1
<1>3. ASSUME NEW k \in Node, Restart(k)
      PROVE  matchIndex'[i] = matchIndex[i] /\ commitIndex'[i] = commitIndex[i]
    <2>1. /\ state' = [state EXCEPT ![k] = "Follower"]
          /\ commitIndex' = [commitIndex EXCEPT ![k] = 0]
          /\ matchIndex' = [matchIndex EXCEPT ![k] = [j \in Node |-> 0]]
        BY <1>3 DEF Restart
    <2> QED BY <1>1, <2>1
<1>4. ASSUME NEW m \in rpcs, AcceptAppendEntries(m)
      PROVE  matchIndex'[i] = matchIndex[i] /\ commitIndex'[i] = commitIndex[i]
    <2>1. /\ state' = [state EXCEPT ![m.to] = "Follower"] /\ m.to \in Node
          /\ commitIndex' = [commitIndex EXCEPT ![m.to] = NewCommitIndex(m, m.to)]
          /\ UNCHANGED matchIndex
        BY <1>4, StepTypes, RpcTypes DEF AcceptAppendEntries, HearLeader, BecomeFollower,
                                         leaderVars, TypeOK
    <2> QED BY <1>1, <2>1
<1>5. ASSUME NEW m \in rpcs, Hears(m), m.from # i
      PROVE  matchIndex'[i] = matchIndex[i] /\ commitIndex'[i] = commitIndex[i]
    <2>1. /\ matchIndex' = [matchIndex EXCEPT ![m.from][m.to] = m.match]
          /\ \E n : commitIndex' = [commitIndex EXCEPT ![m.from] = n]
        BY <1>5 DEF Hears, UpdateCommitIndex
    <2> QED BY <1>1, <1>5, <2>1
<1>6. CASE \E k \in Node : Quiet(k)
    BY <1>6 DEF Quiet
<1>7. CASE \E k \in Node : ApplierTake(k)
    BY <1>7 DEF ApplierTake, leaderVars
<1> QED BY <1>2, <1>3, <1>4, <1>5, <1>6, <1>7, StepKinds DEF Kinds

\* A leader that has heard of nothing has nothing to count.
LEMMA NothingHeard ==
    ASSUME Stepped, NothingToCount, Cardinality(Node) > 1, NEW i \in Node, StillLeads(i),
           Longer(i), matchIndex'[i] = matchIndex[i],
           NEW n, n \in Owned(LogChain(i)'), LogChain(i)'.at[n].term = currentTerm[i],
           n > commitIndex[i]
    PROVE  ~IsMajority(Counted(i, n)')
<1>1. PICK c, new : c = LogChain(i) /\ new = LogChain(i)'
    OBVIOUS
<1>2. PICK last \in Nat : /\ last = LastLogIndex(i) /\ Owned(c) = 1 .. last
                          /\ c.last = last /\ c.base = 0
    BY <1>1, LogIs
<1>3. PICK S \in SUBSET Node, R \in SUBSET Node : S = Counted(i, n) /\ R = Counted(i, n)' /\ S = R
    BY DEF Counted
<1>4. CASE n \in Owned(c)
    <2>1. c.at[n].term = currentTerm[i]
        BY <1>1, <1>4 DEF Longer, Grows, ExtensionOf
    <2>2. ~IsMajority(S)
        BY <1>1, <1>3, <1>4, <2>1 DEF NothingToCount, StillLeads, Counted
    <2> QED BY <1>3, <2>2 DEF IsMajority
<1>5. CASE n \notin Owned(c)
    <2>1. n = last + 1
        <3>1. PICK e : ExtensionOf(new, c, e)
            BY <1>1, <1>5 DEF Longer, Grows
        <3>2. n \in 1 .. last + 1
            BY <1>1, <1>2, <3>1 DEF ExtensionOf, Owned
        <3> QED BY <1>2, <1>5, <3>2
    <2>2. ASSUME NEW j \in Node, matchIndex[i][j] >= n PROVE FALSE
        <3>1. matchIndex[i][j] \in Nat /\ matchIndex[i][j] <= last
            BY <1>2, StepTypes DEF TypeOK, Stepped, Bookkeeping, FollowersWithin, StillLeads
        <3> QED BY <2>1, <2>2, <3>1
    <2>3. S = {i}
        BY <1>3, <2>2 DEF Counted
    <2>4. ~IsMajority({i})
        BY NoneAlone
    <2> QED BY <1>3, <2>3, <2>4 DEF IsMajority
<1> QED BY <1>4, <1>5

LEMMA StartCommitsNothing ==
    ASSUME Stepped, Bookkeeping', NothingToCount, Cardinality(Node) > 1,
           Cardinality(Node) % 2 = 1, NEW i \in Node, NEW command \in Value, Start(i, command)
    PROVE  UNCHANGED commitIndex
<1>1. /\ state[i] = "Leader" /\ state'[i] = "Leader" /\ currentTerm'[i] = currentTerm[i]
      /\ UpdateCommitIndex(i) /\ UNCHANGED leaderVars
    BY DEF Start, roleVars
<1>2. SUFFICES ASSUME CountsCommit(i) PROVE FALSE
    BY <1>1, StepTypes, CountedCommit
<1>3. PICK n \in Nat : /\ n = commitIndex'[i] /\ n > commitIndex[i]
                       /\ LogTerm(i, n)' = currentTerm[i]
                       /\ IsMajority({j \in Node : j = i \/ matchIndex'[i][j] >= n})
    BY <1>2 DEF CountsCommit
<1>4. TermsOfLogs'
    <2>1. (TypeOK /\ NoSnapshots => TermsOfLogs)'
        BY LogTermIs, PTL
    <2> QED BY <2>1, StepTypes DEF Bookkeeping
<1>5. n # 0 /\ currentTerm[i] \in Nat
    BY <1>3, StepTypes DEF TypeOK
<1>6. n \in Owned(LogChain(i)') /\ LogChain(i)'.at[n].term = currentTerm[i]
    BY <1>3, <1>4, <1>5 DEF TermsOfLogs, Owned
<1>7. StillLeads(i) /\ Longer(i) /\ matchIndex'[i] = matchIndex[i]
    BY <1>1, CampaignersGrow DEF StillLeads, leaderVars
<1>8. ~IsMajority(Counted(i, n)')
    BY <1>3, <1>6, <1>7, NothingHeard
<1> QED BY <1>3, <1>8 DEF Counted, IsMajority

LEMMA NothingToCountKept ==
    ASSUME Stepped, Bookkeeping', NothingToCount, Cardinality(Node) > 1, Cardinality(Node) % 2 = 1
    PROVE  NothingToCount'
<1> SUFFICES ASSUME NEW i \in Node, state'[i] = "Leader", NEW n \in Owned(LogChain(i)'),
                    n > commitIndex'[i], LogChain(i)'.at[n].term = currentTerm'[i]
             PROVE  ~IsMajority(Counted(i, n)')
    BY DEF NothingToCount, Counted, Owned, IsMajority
<1>1. PICK new : new = LogChain(i)'
    OBVIOUS
<1>2. PICK last \in Nat : /\ last = LastLogIndex(i)' /\ new.last = last /\ new.base = 0
                          /\ n \in 1 .. last
    <2>1. EntriesAt(i)'
        BY StepKnown DEF Bookkeeping, EntriesKnown
    <2> QED BY <1>1, <2>1 DEF EntriesAt, Owned
<1>3. CASE NewlyLeads(i)
    <2>1. \A j \in Node : matchIndex'[i][j] >= n => j = i
        BY <1>2, <1>3 DEF NewlyLeads
    <2>2. PICK R \in SUBSET Node : R = Counted(i, n)'
        BY DEF Counted
    <2>3. R = {i}
        BY <2>1, <2>2 DEF Counted
    <2>4. ~IsMajority(R)
        BY <2>3, NoneAlone
    <2> QED BY <2>2, <2>4 DEF IsMajority
<1>4. CASE StillLeads(i)
    <2>1. /\ state[i] = "Leader" /\ currentTerm'[i] = currentTerm[i] /\ Longer(i)
          /\ commitIndex[i] \in Nat /\ commitIndex'[i] \in Nat
        BY <1>4, CampaignersGrow, StepTypes DEF StillLeads, TypeOK
    <2>2. CASE matchIndex'[i] = matchIndex[i] /\ commitIndex'[i] = commitIndex[i]
        BY <1>4, <2>1, <2>2, NothingHeard
    <2>3. ASSUME NEW command \in Value, Start(i, command) PROVE ~IsMajority(Counted(i, n)')
        <3>1. matchIndex'[i] = matchIndex[i] /\ commitIndex'[i] = commitIndex[i]
            BY <2>3, StartCommitsNothing DEF Start, leaderVars
        <3> QED BY <1>4, <2>1, <3>1, NothingHeard
    <2>4. ASSUME NEW m \in rpcs, m.from = i, Hears(m) PROVE ~IsMajority(Counted(i, n)')
        <3>1. PICK match : match = [matchIndex'[i] EXCEPT ![i] = last]
            OBVIOUS
        <3>2. /\ match \in [Node -> Nat] /\ match[i] = last
              /\ \A j \in Node \ {i} : match[j] = matchIndex'[i][j]
            BY <1>2, <3>1, StepTypes DEF TypeOK
        <3>3. PICK x \in {match[j] : j \in Node} :
                  /\ AtMiddle(match, x)
                  /\ commitIndex' = [commitIndex EXCEPT ![i] = IF MayCommit(i, x) THEN x ELSE @]
            <4>1. UpdateCommitIndex(i)
                BY <2>4 DEF Hears
            <4>2. match = [matchIndex'[i] EXCEPT ![i] = LastLogIndex(i)']
                BY <1>2, <3>1
            <4> QED BY <4>1, <4>2 DEF UpdateCommitIndex
        <3>4. x \in Nat /\ x <= last
            <4>1. \A j \in Node : matchIndex'[i][j] <= last
                BY <1>2 DEF Bookkeeping, FollowersWithin
            <4> QED BY <3>2, <3>3, <4>1
        <3>5. commitIndex'[i] = IF MayCommit(i, x) THEN x ELSE commitIndex[i]
            BY <3>3, StepTypes DEF TypeOK
        <3> SUFFICES ASSUME IsMajority(Counted(i, n)') PROVE FALSE
            OBVIOUS
        <3>6. n <= x
            <4>1. PICK R \in SUBSET Node, S \in SUBSET Node :
                      R = Counted(i, n)' /\ S = {j \in Node : match[j] <= x}
                BY DEF Counted
            <4>2. IsMajority(R) /\ IsMajority(S)
                BY <3>3, <4>1 DEF IsMajority, AtMiddle
            <4>3. PICK j \in Node : j \in R /\ j \in S
                BY <4>2, MajoritiesMeet
            <4>4. match[j] >= n /\ match[j] <= x /\ match[j] \in Nat
                BY <1>2, <3>2, <4>1, <4>3 DEF Counted
            <4> QED BY <1>2, <3>4, <4>4
        <3>7. LogTerm(i, x)' = currentTerm[i]
            <4>1. /\ x \in Span(new) /\ n \in Span(new) /\ x \in 1 .. last
                BY <1>2, <3>4, <3>6 DEF Span
            <4>2. new.at[n].term <= new.at[x].term /\ new.at[x].term <= currentTerm'[i]
                BY <1>1, <3>6, <4>1 DEF Bookkeeping, TermsAscend, Ascending, UpTo, Chains, Span
            <4>3. LogTerm(i, x)' = new.at[x].term
                <5>1. LogChainIs(i)' /\ lastIncludedIndex'[i] = 0
                    BY StepTypes DEF LogChainsAre, Bookkeeping, NoSnapshots
                <5>2. x \in Held(i)'
                    BY <1>2, <4>1, <5>1 DEF Held
                <5>3. x # 0
                    BY <4>1
                <5> QED BY <1>1, <5>1, <5>2, <5>3 DEF LogChainIs, LogTerm
            <4>4. new.at[x].term \in Int /\ currentTerm[i] \in Nat
                <5>1. Typed(new)
                    BY <1>1, StepTypes DEF ChainsTyped, Chains
                <5> QED BY <4>1, <5>1, StepTypes DEF Typed, TermsRise
            <4> QED BY <1>1, <2>1, <4>2, <4>3, <4>4
        <3> QED BY <1>2, <2>1, <3>4, <3>5, <3>6, <3>7 DEF MayCommit
    <2> QED BY <1>4, <2>1, <2>2, <2>3, <2>4, LeaderKinds
<1> QED BY <1>3, <1>4 DEF Stepped, MovesTraced, LeadersTraced

-----------------------------------------------------------------------------
(* No term is beyond the number of elections. *)

BoundedBy(m, t) ==
    /\ m.term <= t
    /\ m.type \in {"RequestVoteReply", "AppendEntriesReply"} => m.replyTerm <= t

LEMMA BoundsKept ==
    ASSUME TermsBounded, elections' = elections,
           \A i \in Node : currentTerm'[i] <= elections,
           \A m \in rpcs' : m \in rpcs \/ BoundedBy(m, elections)
    PROVE  TermsBounded'
BY DEF TermsBounded, BoundedBy

LEMMA RepliesBounded ==
    ASSUME TermsBounded, NEW m \in rpcs, NEW t, t <= elections
    PROVE  /\ \A ok : BoundedBy(RequestVoteReply(m, t, ok), elections)
           /\ \A ok, c : BoundedBy(AppendEntriesReply(m, t, ok, c), elections)
BY DEF TermsBounded, BoundedBy, RequestVoteReply, AppendEntriesReply

LEMMA FollowerBounded ==
    ASSUME TypeOK, TermsBounded, NEW i \in Node, NEW t \in Nat, t <= elections, BecomeFollower(i, t)
    PROVE  \A k \in Node : currentTerm'[k] <= elections
<1>1. currentTerm' = [currentTerm EXCEPT ![i] = IF t > currentTerm[i] THEN t ELSE currentTerm[i]]
    BY DEF BecomeFollower
<1> QED BY <1>1 DEF TypeOK, TermsBounded

LEMMA ElectionBounded ==
    ASSUME TypeOK, TermsBounded, NEW i \in Node, ElectionTimeout(i)
    PROVE  TermsBounded'
<1>1. PICK e \in Nat : e = elections /\ elections' = e + 1 /\ e + 1 <= MaxElections
    BY BoundsAssumption DEF ElectionTimeout, TypeOK
<1>2. \A k \in Node : currentTerm[k] \in Nat /\ currentTerm[k] <= e
    BY <1>1 DEF TermsBounded, TypeOK
<1>3. \A k \in Node : currentTerm'[k] <= e + 1
    <2>1. currentTerm' = [currentTerm EXCEPT ![i] = currentTerm[i] + 1]
        BY DEF ElectionTimeout
    <2>2. \A k \in Node : currentTerm'[k] = IF k = i THEN currentTerm[i] + 1 ELSE currentTerm[k]
        BY <2>1 DEF TypeOK
    <2> QED BY <1>2, <2>2
<1>4. ASSUME NEW m \in rpcs PROVE BoundedBy(m, e + 1)
    <2>1. m.term <= e /\ m.term \in Nat
        BY <1>1, RpcTypes DEF TermsBounded, TypeOK, Rpc, RequestVoteRpc, AppendEntriesRpc,
           InstallSnapshotRpc, SnapshotMsgRpc, RequestVoteReplyRpc, AppendEntriesReplyRpc,
           InstallSnapshotReplyRpc
    <2>2. m.type \in {"RequestVoteReply", "AppendEntriesReply"} =>
              m.replyTerm <= e /\ m.replyTerm \in Nat
        BY <1>1, RpcTypes DEF TermsBounded, TypeOK, RequestVoteReplyRpc, AppendEntriesReplyRpc
    <2> QED BY <1>1, <2>1, <2>2 DEF BoundedBy
<1>5. ASSUME NEW m \in rpcs' PROVE BoundedBy(m, e + 1)
    <2>1. m \in rpcs \/ \E j \in Node : m = RequestVoteCall(i, j)
        BY DEF ElectionTimeout, Send
    <2>2. \A j : BoundedBy(RequestVoteCall(i, j), e + 1)
        BY <1>2 DEF BoundedBy, RequestVoteCall
    <2> QED BY <1>4, <2>1, <2>2
<1> QED BY <1>1, <1>3, <1>5 DEF TermsBounded, BoundedBy

LEMMA RestartBounded ==
    ASSUME StorageSurvives, ElectionInv, TermsBounded, NEW i \in Node, Restart(i)
    PROVE  TermsBounded'
<1>1. TypeOK /\ disk[i].currentTerm = currentTerm[i]
    <2>1. TypeOK /\ disk[i] = InMemory(i)
        BY DEF ElectionInv, Durable
    <2>2. InMemory(i).currentTerm = currentTerm[i]
        BY DEF InMemory
    <2> QED BY <2>1, <2>2
<1>2. elections' = elections /\ currentTerm' = [currentTerm EXCEPT ![i] = currentTerm[i]]
      /\ rpcs' = AfterCrash(i)
    BY <1>1 DEF Restart
<1>3. \A k \in Node : currentTerm'[k] <= elections
    BY <1>1, <1>2 DEF TypeOK, TermsBounded
<1>4. ASSUME NEW m \in rpcs' PROVE m \in rpcs \/ BoundedBy(m, elections)
    <2>1. PICK k \in rpcs : /\ k.type = m.type
                            /\ m = k \/ m = [k EXCEPT !.live = FALSE]
        BY <1>1, <1>2, CrashedCall
    <2>2. CASE m = k
        BY <2>2
    <2>3. CASE m = [k EXCEPT !.live = FALSE]
        <3>1. m.term = k.term
            BY <1>1, <2>3, RpcTypes DEF TypeOK, Rpc, RequestVoteRpc, AppendEntriesRpc,
               InstallSnapshotRpc, SnapshotMsgRpc, RequestVoteReplyRpc, AppendEntriesReplyRpc,
               InstallSnapshotReplyRpc
        <3>2. m.type \in {"RequestVoteReply", "AppendEntriesReply"} => m.replyTerm = k.replyTerm
            BY <1>1, <2>1, <2>3, RpcTypes DEF TypeOK, RequestVoteReplyRpc, AppendEntriesReplyRpc
        <3> QED BY <2>1, <3>1, <3>2 DEF TermsBounded, BoundedBy
    <2> QED BY <2>1, <2>2, <2>3
<1> QED BY <1>2, <1>3, <1>4, BoundsKept

LEMMA TermsBoundedKept ==
    ASSUME Stepped, TermsBounded
    PROVE  TermsBounded'
<1>1. TypeOK /\ NoSnapshots /\ FollowersWithin /\ ElectionInv /\ StorageSurvives
    BY StepTypes DEF Stepped, Bookkeeping
<1>2. Moves
    BY <1>1, StepMoves DEF Stepped
<1>3. \A i \in Node : currentTerm[i] <= elections /\ currentTerm[i] \in Nat
    BY <1>1 DEF TermsBounded, TypeOK
<1>4. ASSUME UNCHANGED <<elections, currentTerm>>, rpcs' \subseteq rpcs PROVE TermsBounded'
    BY <1>3, <1>4, BoundsKept
<1>5. ASSUME NEW m \in rpcs, NEW r, Respond(m, r), BoundedBy(r, elections),
             elections' = elections, \A i \in Node : currentTerm'[i] <= elections
      PROVE  TermsBounded'
    <2>1. \A k \in rpcs' : k \in rpcs \/ k = r
        BY <1>5 DEF Respond
    <2> QED BY <1>5, <2>1, BoundsKept
<1>6. ASSUME NEW i \in Node, NodeMoves(i) PROVE TermsBounded'
    <2>1. CASE QuietTick(i) \/ ApplierTake(i) \/ ServiceApply(i)
               \/ \E command \in Value : Start(i, command)
        BY <1>4, <2>1 DEF QuietTick, ApplierTake, ServiceApply, Start, persistentVars, processVars
    <2>2. ASSUME NEW j \in Node, SendAppendEntries(i, j) PROVE TermsBounded'
        <3>1. UNCHANGED <<elections, currentTerm>> /\ rpcs' = rpcs \cup {AppendEntriesCall(i, j)}
            BY <2>2 DEF SendAppendEntries, Send, persistentVars, processVars
        <3>2. BoundedBy(AppendEntriesCall(i, j), elections)
            BY <1>3 DEF BoundedBy, AppendEntriesCall
        <3> QED BY <1>3, <3>1, <3>2, BoundsKept
    <2> QED BY <1>1, <1>6, <2>1, <2>2, ElectionBounded, RestartBounded DEF NodeMoves
<1>7. ASSUME NEW m \in rpcs, CallMoves(m) PROVE TermsBounded'
    <2>1. m.from \in Node /\ m.to \in Node /\ m.term <= elections
        BY <1>1, RpcTypes DEF TypeOK, TermsBounded
    <2>2. CASE HandleRequestVoteReply(m) \/ HandleAppendEntriesReply(m) \/ Lose(m)
        BY <1>4, <2>2 DEF HandleRequestVoteReply, HandleAppendEntriesReply, Lose, Done,
                          persistentVars, processVars
    <2>3. CASE RejectStale(m)
        <3>1. \/ Respond(m, RequestVoteReply(m, currentTerm[m.to], FALSE))
              \/ Respond(m, AppendEntriesReply(m, currentTerm[m.to], FALSE, 0))
            BY <1>1, <2>3 DEF RejectStale, NoSnapshots
        <3>2. UNCHANGED <<elections, currentTerm>>
            BY <2>3 DEF RejectStale, persistentVars, processVars
        <3> QED BY <1>3, <1>5, <2>1, <3>1, <3>2, RepliesBounded
    <2>4. CASE HandleRequestVote(m)
        <3>1. \A k \in Node : currentTerm'[k] <= elections
            <4>1. currentTerm' = [currentTerm EXCEPT ![m.to] = m.term]
                BY <2>4 DEF HandleRequestVote
            <4> QED BY <1>1, <1>3, <2>1, <4>1 DEF TypeOK
        <3>2. Respond(m, RequestVoteReply(m, m.term, MayGrant(m, m.to))) /\ elections' = elections
            BY <2>4 DEF HandleRequestVote, processVars
        <3> QED BY <1>5, <2>1, <3>1, <3>2, RepliesBounded
    <2>5. CASE RejectAppendEntries(m) \/ AcceptAppendEntries(m)
        <3>1. BecomeFollower(m.to, m.term) /\ elections' = elections /\ m.type = "AppendEntries"
            BY <2>5 DEF RejectAppendEntries, AcceptAppendEntries, HearLeader, processVars
        <3>2. \E ok, c : Respond(m, AppendEntriesReply(m, m.term, ok, c))
            BY <2>5 DEF RejectAppendEntries, AcceptAppendEntries
        <3>3. m.term \in Nat
            BY <1>1, <3>1, RpcTypes DEF TypeOK, AppendEntriesRpc
        <3> QED BY <1>1, <1>5, <2>1, <3>1, <3>2, <3>3, RepliesBounded, FollowerBounded
    <2>6. CASE HandleNewerTerm(m)
        <3>1. /\ BecomeFollower(m.from, m.replyTerm) /\ elections' = elections
              /\ rpcs' \subseteq rpcs
              /\ m.type \in {"RequestVoteReply", "AppendEntriesReply"}
            BY <1>1, <2>6 DEF HandleNewerTerm, StepDown, Done, processVars, NoSnapshots
        <3>2. m.replyTerm \in Nat /\ m.replyTerm <= elections
            BY <1>1, <3>1, RpcTypes DEF TypeOK, RequestVoteReplyRpc, AppendEntriesReplyRpc,
                                         TermsBounded
        <3>3. \A k \in Node : currentTerm'[k] <= elections
            BY <1>1, <2>1, <3>1, <3>2, FollowerBounded
        <3> QED BY <3>1, <3>3, BoundsKept
    <2> QED BY <1>7, <2>2, <2>3, <2>4, <2>5, <2>6 DEF CallMoves
<1>8. CASE UNCHANGED vars
    BY <1>4, <1>8 DEF vars, persistentVars, processVars
<1> QED BY <1>2, <1>6, <1>7, <1>8 DEF Moves

-----------------------------------------------------------------------------
(* The invariant. *)

CommitsWithin == \A i \in Node : commitIndex[i] <= Len(Entries(i))

LEMMA CommitsAre == CommitInv /\ EntriesKnown => CommitsWithin
<1> SUFFICES ASSUME CommitInv, EntriesKnown, NEW i \in Node
             PROVE  commitIndex[i] <= Len(Entries(i))
    BY DEF CommitsWithin
<1>1. PICK n \in Nat, s \in Seq(Entry) : n = commitIndex[i] /\ s = Entries(i)
    BY CommitTypes DEF EntriesKnown, EntriesAt
<1>2. CASE n = 0
    BY <1>1, <1>2, LenProperties
<1>3. CASE n # 0
    <2>1. \E e : Has(i, n, e)
        BY <1>1, <1>3 DEF CommitInv, CommitsSecure
    <2>2. n \in 1 .. Len(s)
        BY <1>1, <2>1, HasEntry
    <2> QED BY <1>1, <2>2
<1> QED BY <1>2, <1>3

LEMMA StepRecorded ==
    ASSUME HistoryTypes, LogsOffered, CommittedLasts, [HistoryNext]_<<vars, historyVars>>
    PROVE  Recorded
<1>1. CASE HistoryNext
    <2>1. \A i \in Node : offered'[i] =
              offered[i] \cup (IF state'[i] = "Leader" THEN {Entries(i)'} ELSE {})
        BY <1>1 DEF HistoryNext, HistoryTypes
    <2>2. \/ /\ \A i \in Node : commitIndex'[i] <= Len(committed)
             /\ committed' = committed
          \/ \E i \in Node :
                /\ Len(committed) < commitIndex'[i]
                /\ committed' = CommittedEntries(i)'
        BY <1>1 DEF HistoryNext
    <2> QED BY <2>1, <2>2 DEF Recorded
<1>2. CASE UNCHANGED <<vars, historyVars>>
    <2>1. UNCHANGED <<offered, committed, state, log, commitIndex>>
        BY <1>2 DEF vars, historyVars, persistentVars, roleVars, commitVars
    <2>2. \A i \in Node : Entries(i)' = Entries(i)
        BY <2>1 DEF Entries
    <2> QED BY <2>1, <2>2 DEF Recorded, LogsOffered, CommittedLasts
<1> QED BY <1>1, <1>2

LEMMA HistoryTypesKept ==
    ASSUME HistoryTypes, CommitInv', EntriesKnown', [HistoryNext]_<<vars, historyVars>>
    PROVE  HistoryTypes'
<1>1. CASE HistoryNext
    <2>1. \A i \in Node : Entries(i)' \in Seq(Entry)
        BY DEF EntriesKnown, EntriesAt
    <2>2. offered' \in [Node -> SUBSET Seq(Entry)]
        BY <1>1, <2>1 DEF HistoryNext, HistoryTypes
    <2>3. ASSUME NEW i \in Node PROVE CommittedEntries(i)' \in Seq(Entry)
        <3>1. CommitsWithin'
            <4>1. (CommitInv /\ EntriesKnown => CommitsWithin)'
                BY CommitsAre, PTL
            <4> QED BY <4>1
        <3>2. PICK s, n : s \in Seq(Entry) /\ s = Entries(i)' /\ n = commitIndex'[i]
            BY <2>1
        <3>3. n \in Nat /\ n <= Len(s)
            <4>1. TypeOK'
                BY DEF CommitInv, MatchingInv, ElectionInv
            <4> QED BY <3>1, <3>2, <4>1 DEF CommitsWithin, TypeOK
        <3>4. \A k \in 1 .. n : k \in 1 .. Len(s)
            BY <3>2, <3>3, LenProperties
        <3>5. \A k \in 1 .. n : s[k] \in Entry
            BY <3>2, <3>4, ElementOfSeq
        <3>6. SubSeq(s, 1, n) \in Seq(Entry)
            BY <3>2, <3>3, <3>5, SubSeqProperties
        <3> QED BY <3>2, <3>6 DEF CommittedEntries
    <2>4. committed' \in Seq(Entry)
        BY <1>1, <2>3 DEF HistoryNext, HistoryTypes
    <2> QED BY <2>2, <2>4 DEF HistoryTypes
<1>2. CASE UNCHANGED <<vars, historyVars>>
    BY <1>2 DEF HistoryTypes, historyVars
<1> QED BY <1>1, <1>2

LEMMA HistoryStep ==
    ASSUME OrderlyNetwork, Cardinality(Node) > 1, HistoryInv, [HistoryNext]_<<vars, historyVars>>
    PROVE  HistoryInv' /\ KeptMore
<1>1. /\ CommitInv /\ HistoryTypes /\ OffersAgree /\ OffersLed /\ OffersWithin /\ LogsOffered
      /\ CallsOffered /\ CommittedLasts /\ NothingToCount /\ TermsBounded
    BY DEF HistoryInv
<1>2. [Next]_vars
    BY DEF HistoryNext
<1>3. CommitInv' /\ Stepped
    BY <1>1, <1>2, CommitStep
<1>4. NoSnapshots' /\ Bookkeeping' /\ EntriesKnown'
    <2>1. NoSnapshots' /\ Bookkeeping'
        BY <1>3 DEF CommitInv, Bookkeeping
    <2> QED BY <1>3, <2>1, StepKnown
<1>5. Recorded /\ HistoryTypes'
    BY <1>1, <1>3, <1>4, StepRecorded, HistoryTypesKept
<1>6. Kept
    BY <1>1, <1>3, <1>4, <1>5 DEF Kept
<1>7. KeptMore
    BY <1>1, <1>3, <1>6 DEF KeptMore
<1>8. OffersAgree' /\ OffersLed' /\ OffersWithin' /\ LogsOffered' /\ CallsOffered'
    BY <1>6, OffersAgreeKept, OffersLedKept, OffersWithinKept, LogsOfferedKept, CallsOfferedKept
<1>9. CommittedLasts' /\ NothingToCount' /\ TermsBounded'
    BY <1>1, <1>3, <1>4, <1>7, CommittedLastsKept, NothingToCountKept, TermsBoundedKept
       DEF OrderlyNetwork
<1> QED BY <1>3, <1>5, <1>7, <1>8, <1>9 DEF HistoryInv

LEMMA InitHistory == HistoryInit => HistoryInv
<1> SUFFICES ASSUME HistoryInit PROVE HistoryInv
    OBVIOUS
<1>1. CommitInv /\ Init
    BY InitCommit DEF HistoryInit
<1>2. /\ \A i \in Node : state[i] = "Follower" /\ currentTerm[i] = 0
                         /\ log[i] = <<Dummy(0)>> /\ commitIndex[i] = 0
      /\ rpcs = {} /\ elections = 0
      /\ offered = [i \in Node |-> {}] /\ committed = << >>
    BY <1>1 DEF Init, HistoryInit
<1>3. Calls = {} /\ Offers = {<< >>} /\ Len(committed) = 0
    BY <1>2 DEF Calls, Offers
<1>4. \A i \in Node : Entries(i) = << >>
    <2> SUFFICES ASSUME NEW i \in Node PROVE Entries(i) = << >>
        OBVIOUS
    <2>1. lastIncludedIndex[i] = 0 /\ Len(log[i]) = 1
        BY <1>1 DEF Init
    <2>2. EntriesKnown
        BY <1>1, EntriesAre DEF CommitInv, MatchingInv, ElectionInv
    <2>3. Entries(i) \in Seq(Entry) /\ Len(Entries(i)) = 0
        BY <2>1, <2>2 DEF EntriesKnown, EntriesAt, LastLogIndex
    <2> QED BY <2>3, EmptySeq
<1>5. HistoryTypes
    BY <1>2 DEF HistoryTypes
<1>6. OffersAgree /\ OffersLed /\ OffersWithin
    <2>1. \A s \in Offers : Len(s) = 0
        BY <1>3
    <2> QED BY <2>1 DEF OffersAgree, LogsAgree, OffersLed, OffersWithin
<1>7. LogsOffered /\ CallsOffered
    BY <1>2, <1>3, <1>4 DEF LogsOffered, CallsOffered
<1>8. CommittedLasts
    BY <1>2, <1>3 DEF CommittedLasts
<1>9. NothingToCount /\ TermsBounded
    BY <1>2, BoundsAssumption DEF NothingToCount, TermsBounded
<1> QED BY <1>1, <1>5, <1>6, <1>7, <1>8, <1>9 DEF HistoryInv

-----------------------------------------------------------------------------
(* The replicated log of RaftLog, as module RaftRefinement finds it in the nodes. *)

Leading == {i \in Node : state[i] = "Leader"}
Logs    == [i \in Node |-> Entries(i)]

\* What the proofs of the single steps start from.
Refining == HistoryInv /\ KeptMore /\ HistoryNext

\* Only i changes what the replicated log sees, apart from what is committed.
Only(i) ==
    \A k \in Node \ {i} : /\ Entries(k)' = Entries(k)
                          /\ state'[k] = state[k]
                          /\ lastApplied'[k] = lastApplied[k]

LEMMA OnlyChanges ==
    ASSUME Refining, NEW i \in Node, Only(i)
    PROVE  /\ state'[i] = "Leader" => Leading' = Leading \cup {i}
           /\ state'[i] # "Leader" => Leading' = Leading \ {i}
           /\ Logs' = [Logs EXCEPT ![i] = Entries(i)']
           /\ offered' = [offered EXCEPT ![i] = offered[i] \cup
                             (IF state'[i] = "Leader" THEN {Entries(i)'} ELSE {})]
           /\ lastApplied' = [lastApplied EXCEPT ![i] = lastApplied'[i]]
<1>1. /\ TypeOK /\ TypeOK' /\ offered \in [Node -> SUBSET Seq(Entry)]
      /\ LogsOffered
    BY StepTypes DEF Refining, KeptMore, Kept, HistoryTypes
<1>2. /\ state'[i] = "Leader" => Leading' = Leading \cup {i}
      /\ state'[i] # "Leader" => Leading' = Leading \ {i}
    BY DEF Only, Leading
<1>3. Logs' = [Logs EXCEPT ![i] = Entries(i)']
    BY DEF Only, Logs
<1>4. /\ offered' = [k \in Node |->
             offered[k] \cup (IF state'[k] = "Leader" THEN {Entries(k)'} ELSE {})]
    BY DEF Refining, HistoryNext
<1>5. ASSUME NEW k \in Node \ {i} PROVE offered'[k] = offered[k]
    <2>1. state'[k] = "Leader" => Entries(k)' \in offered[k]
        BY <1>1 DEF Only, LogsOffered
    <2> QED BY <1>1, <1>4, <2>1
<1>6. offered' = [offered EXCEPT ![i] = offered[i] \cup
                             (IF state'[i] = "Leader" THEN {Entries(i)'} ELSE {})]
    BY <1>1, <1>4, <1>5
<1>7. lastApplied' = [lastApplied EXCEPT ![i] = lastApplied'[i]]
    BY <1>1 DEF Only, TypeOK
<1> QED BY <1>2, <1>3, <1>6, <1>7

\* Nothing is committed but by a leader that counts.
LEMMA CommittedStill ==
    ASSUME Refining, NEW i \in Node, \A k \in Node \ {i} : commitIndex'[k] = commitIndex[k],
           commitIndex'[i] = commitIndex[i] \/ state'[i] # "Leader"
    PROVE  committed' = committed
<1> SUFFICES ASSUME NEW k \in Node, NewlyCommits(k) PROVE FALSE
    BY CommittedGrows DEF Refining
<1>1. /\ state'[k] = "Leader"
      /\ \E n \in Nat : n = commitIndex'[k] /\ n > commitIndex[k]
    BY DEF NewlyCommits, CountsCommit
<1>2. commitIndex[k] \in Nat
    BY StepTypes DEF Refining, KeptMore, Kept, TypeOK
<1> QED BY <1>1, <1>2

LEMMA AgreesWhen ==
    ASSUME NEW s \in Seq(Entry), NEW k \in Nat, committed \in Seq(Entry),
           k <= Len(s), k <= Len(committed), \A n \in 1 .. k : s[n] = committed[n]
    PROVE  RL!Agrees(s, k)
<1>1. PICK c \in Seq(Entry) : c = committed
    OBVIOUS
<1>2. (\A n \in 1 .. k : n \in 1 .. Len(s)) /\ (\A n \in 1 .. k : n \in 1 .. Len(c))
    BY <1>1, LenProperties
<1>3. (\A n \in 1 .. k : s[n] \in Entry) /\ (\A n \in 1 .. k : c[n] \in Entry)
    BY <1>2, ElementOfSeq
<1>4. /\ SubSeq(s, 1, k) \in Seq(Entry) /\ Len(SubSeq(s, 1, k)) = k
      /\ \A n \in 1 .. k : SubSeq(s, 1, k)[n] = s[n]
    <2>1. /\ SubSeq(s, 1, k) \in Seq(Entry)
          /\ Len(SubSeq(s, 1, k)) = IF 1 <= k THEN k - 1 + 1 ELSE 0
          /\ \A n \in 1 .. k - 1 + 1 : SubSeq(s, 1, k)[n] = s[1 + n - 1]
        BY <1>3, SubSeqProperties
    <2> QED BY <2>1
<1>5. /\ SubSeq(c, 1, k) \in Seq(Entry) /\ Len(SubSeq(c, 1, k)) = k
      /\ \A n \in 1 .. k : SubSeq(c, 1, k)[n] = c[n]
    <2>1. /\ SubSeq(c, 1, k) \in Seq(Entry)
          /\ Len(SubSeq(c, 1, k)) = IF 1 <= k THEN k - 1 + 1 ELSE 0
          /\ \A n \in 1 .. k - 1 + 1 : SubSeq(c, 1, k)[n] = c[1 + n - 1]
        BY <1>3, SubSeqProperties
    <2> QED BY <2>1
<1>6. \A n \in 1 .. k : SubSeq(s, 1, k)[n] = SubSeq(c, 1, k)[n]
    BY <1>1, <1>4, <1>5
<1>7. SubSeq(s, 1, k) = SubSeq(c, 1, k)
    BY <1>4, <1>5, <1>6, SeqEqual
<1> QED BY <1>1, <1>7 DEF RL!Agrees

\* What the service of i has been given is in the log, before and after a step.
LEMMA DeliveredAgrees ==
    ASSUME Refining, NEW i \in Node, NEW k \in Nat, k <= commitIndex[i]
    PROVE  /\ k <= Len(committed) /\ committed \in Seq(Entry) /\ RL!Agrees(Entries(i), k)
           /\ \A n \in 1 .. k : Has(i, n, committed[n])
<1>1. /\ CommitInv /\ EntriesKnown /\ OffersAgree /\ LogsOffered /\ CommittedLasts
      /\ committed \in Seq(Entry)
    BY StepEntries DEF Refining, KeptMore, Kept, HistoryTypes
<1>2. PICK l \in Nat, s \in Seq(Entry) : l = Len(committed) /\ s = Entries(i)
    BY <1>1, LenProperties DEF EntriesKnown, EntriesAt
<1>3. \A n \in 1 .. k : n \in Nat \ {0} /\ n <= commitIndex[i]
    BY <1>1, CommitTypes
<1>4. \A n \in 1 .. k : n <= l /\ n \in 1 .. Len(s) /\ s[n] = committed[n]
    BY <1>1, <1>2, <1>3, KnownCommitted
<1>5. k <= l /\ k <= Len(s)
    <2>1. CASE k = 0
        BY <1>2, <2>1, LenProperties
    <2>2. CASE k # 0
        <3>1. k \in 1 .. k
            BY <2>2
        <3> QED BY <1>2, <1>4, <3>1, LenProperties
    <2> QED BY <2>1, <2>2
<1>6. RL!Agrees(s, k)
    BY <1>1, <1>2, <1>4, <1>5, AgreesWhen
<1>7. \A n \in 1 .. k : Has(i, n, committed[n])
    BY <1>1, <1>2, <1>4, HasEntry
<1> QED BY <1>1, <1>2, <1>5, <1>6, <1>7

LEMMA QuietRefined ==
    ASSUME Refining, NEW i \in Node, Quiet(i)
    PROVE  [RL!Next]_(RL!logVars)
<1>1. UNCHANGED <<log, commitIndex, lastApplied>> /\ \A k \in Node \ {i} : state'[k] = state[k]
    BY DEF Quiet, LogStill
<1>2. \A k \in Node : Entries(k)' = Entries(k)
    BY <1>1 DEF Entries
<1>3. Only(i) /\ committed' = committed
    BY <1>1, <1>2, CommittedStill DEF Only
<1>4. /\ state'[i] = "Leader" => Leading' = Leading \cup {i}
      /\ state'[i] # "Leader" => Leading' = Leading \ {i}
      /\ Logs' = Logs
      /\ offered' = [offered EXCEPT ![i] = offered[i] \cup
                             (IF state'[i] = "Leader" THEN {Entries(i)} ELSE {})]
    BY <1>2, <1>3, OnlyChanges DEF Logs
<1>5. offered \in [Node -> SUBSET Seq(Entry)] /\ (state[i] = "Leader" => Entries(i) \in offered[i])
    BY DEF Refining, KeptMore, Kept, HistoryTypes, LogsOffered
<1>6. CASE state[i] = "Leader" /\ state'[i] = "Leader"
    <2>1. Leading' = Leading
        BY <1>4, <1>6 DEF Leading
    <2>2. offered' = offered
        BY <1>4, <1>5, <1>6
    <2> QED BY <1>1, <1>3, <1>4, <2>1, <2>2 DEF RL!logVars, Leading, Logs
<1>7. CASE state[i] = "Leader" /\ state'[i] # "Leader"
    <2>1. i \in Leading /\ Leading' = Leading \ {i}
        BY <1>4, <1>7 DEF Leading
    <2>2. offered' = offered
        BY <1>4, <1>5, <1>7
    <2>3. RL!StepDown(i)
        BY <1>1, <1>3, <1>4, <2>1, <2>2 DEF RL!StepDown, Leading, Logs
    <2> QED BY <2>3 DEF RL!Next
<1>8. CASE state[i] # "Leader" /\ state'[i] = "Leader"
    <2>1. i \notin Leading /\ Leading' = Leading \cup {i}
        BY <1>4, <1>8 DEF Leading
    <2>2. offered' = [offered EXCEPT ![i] = offered[i] \cup {Entries(i)}] /\ Logs[i] = Entries(i)
        BY <1>4, <1>8 DEF Logs
    <2>3. RL!Elect(i)
        BY <1>1, <1>3, <1>4, <2>1, <2>2 DEF RL!Elect, Leading, Logs
    <2> QED BY <2>3 DEF RL!Next
<1>9. CASE state[i] # "Leader" /\ state'[i] # "Leader"
    <2>1. Leading' = Leading
        BY <1>4, <1>9 DEF Leading
    <2>2. offered' = offered
        BY <1>4, <1>5, <1>9
    <2> QED BY <1>1, <1>3, <1>4, <2>1, <2>2 DEF RL!logVars, Leading, Logs
<1> QED BY <1>6, <1>7, <1>8, <1>9

LEMMA TakeRefined ==
    ASSUME Refining, NEW i \in Node, ApplierTake(i)
    PROVE  RL!Deliver(i)
<1>1. /\ UNCHANGED <<log, state, commitIndex>>
      /\ lastApplied' = [lastApplied EXCEPT ![i] = lastApplied[i] + 1]
      /\ lastApplied[i] < commitIndex[i]
    BY DEF ApplierTake, persistentVars, roleVars
<1>2. PICK n \in Nat, c \in Nat : n = lastApplied[i] /\ c = commitIndex[i] /\ n + 1 <= c
    <2>1. lastApplied[i] \in Nat /\ commitIndex[i] \in Nat
        BY StepTypes DEF Refining, KeptMore, Kept, TypeOK
    <2> QED BY <1>1, <2>1
<1>3. n + 1 <= Len(committed) /\ committed \in Seq(Entry) /\ RL!Agrees(Entries(i), n + 1)
    BY <1>2, DeliveredAgrees
<1>4. n < Len(committed)
    BY <1>3, LenProperties
<1>5. \A k \in Node : Entries(k)' = Entries(k)
    BY <1>1 DEF Entries
<1>6. committed' = committed
    BY <1>1, CommittedStill
<1>7. offered' = offered
    <2>1. /\ offered \in [Node -> SUBSET Seq(Entry)] /\ TypeOK
          /\ state[i] = "Leader" => Entries(i) \in offered[i]
        BY StepTypes DEF Refining, KeptMore, Kept, HistoryTypes, LogsOffered
    <2>2. Only(i)
        BY <1>1, <1>5, <2>1 DEF Only, TypeOK
    <2>3. offered' = [offered EXCEPT ![i] = offered[i] \cup
                             (IF state[i] = "Leader" THEN {Entries(i)} ELSE {})]
        BY <1>1, <1>5, <2>2, OnlyChanges
    <2> QED BY <2>1, <2>3
<1>8. Leading' = Leading /\ Logs' = Logs /\ Logs[i] = Entries(i)
    BY <1>1, <1>5 DEF Leading, Logs
<1> QED BY <1>1, <1>2, <1>3, <1>4, <1>6, <1>7, <1>8 DEF RL!Deliver, Leading, Logs

LEMMA RestartRefined ==
    ASSUME Refining, NEW i \in Node, Restart(i)
    PROVE  0 \in 0 .. lastApplied[i] /\ RL!Restart(i, 0)
<1>1. TypeOK /\ disk[i] = InMemory(i) /\ StorageSurvives
    BY DEF Refining, KeptMore, Kept, Stepped, ElectionInv, Durable
<1>2. disk[i].log = log[i]
    BY <1>1 DEF InMemory
<1>3. /\ log' = [log EXCEPT ![i] = log[i]] /\ state' = [state EXCEPT ![i] = "Follower"]
      /\ commitIndex' = [commitIndex EXCEPT ![i] = 0]
      /\ lastApplied' = [lastApplied EXCEPT ![i] = 0]
    BY <1>1, <1>2 DEF Restart
<1>4. \A k \in Node : Entries(k)' = Entries(k)
    BY <1>1, <1>3 DEF Entries, TypeOK
<1>5. /\ Only(i) /\ state'[i] = "Follower"
      /\ \A k \in Node \ {i} : commitIndex'[k] = commitIndex[k]
    BY <1>1, <1>3, <1>4 DEF Only, TypeOK
<1>6. committed' = committed
    BY <1>5, CommittedStill
<1>7. Leading' = Leading \ {i} /\ Logs' = Logs
    BY <1>4, <1>5, OnlyChanges DEF Logs
<1>8. offered' = offered
    <2>1. offered' = [offered EXCEPT ![i] = offered[i] \cup {}]
        BY <1>5, OnlyChanges
    <2> QED BY <2>1 DEF Refining, KeptMore, Kept, HistoryTypes
<1>9. lastApplied[i] \in Nat
    BY <1>1 DEF TypeOK
<1> QED BY <1>3, <1>6, <1>7, <1>8, <1>9 DEF RL!Restart, Leading, Logs

LEMMA StartRefined ==
    ASSUME Refining, TermsBounded, OrderlyNetwork, Cardinality(Node) > 1,
           NEW i \in Node, NEW command \in Value, Start(i, command)
    PROVE  \E e \in [term : 0 .. MaxElections, command : Value] : RL!Propose(i, e)
<1>1. TypeOK /\ TypeOK' /\ EntriesAt(i) /\ EntriesAt(i)' /\ NoSnapshots
    BY StepTypes, StepEntries DEF Refining, KeptMore, Kept, EntriesKnown, CommitInv
<1>2. PICK e : e = [term |-> currentTerm[i], command |-> command]
    OBVIOUS
<1>3. e \in [term : 0 .. MaxElections, command : Value] /\ e \in Entry
    <2>1. currentTerm[i] \in Nat /\ currentTerm[i] <= elections /\ elections \in Nat
          /\ elections <= MaxElections
        BY <1>1 DEF TermsBounded, TypeOK
    <2>2. currentTerm[i] \in 0 .. MaxElections
        BY <2>1, BoundsAssumption
    <2> QED BY <1>2, <2>1, <2>2 DEF Entry
<1>4. /\ log' = [log EXCEPT ![i] = Append(log[i], e)] /\ state[i] = "Leader"
      /\ UNCHANGED <<state, lastApplied>>
    BY <1>2 DEF Start, roleVars
<1>5. UNCHANGED commitIndex
    <2>1. Bookkeeping' /\ Stepped /\ NothingToCount
        BY DEF Refining, KeptMore, Kept, HistoryInv, CommitInv, Bookkeeping
    <2> QED BY <2>1, StartCommitsNothing DEF OrderlyNetwork
<1>6. PICK l \in Nat, s \in Seq(Entry), t \in Seq(Entry) :
          l = Len(s) /\ s = Entries(i) /\ t = Entries(i)'
    BY <1>1, LenProperties DEF EntriesAt
<1>7. Len(log[i]) = l + 1 /\ log[i] \in Seq(Entry)
    <2>1. log[i] \in Seq(Entry) /\ lastIncludedIndex[i] = 0 /\ Len(log[i]) \in Nat
        BY <1>1, EntryTypes DEF TypeOK, Log, NoSnapshots
    <2>2. l = LastLogIndex(i)
        BY <1>1, <1>6 DEF EntriesAt
    <2> QED BY <2>1, <2>2 DEF LastLogIndex
<1>8. PICK a \in Seq(Entry), b \in Seq(Entry) : a = log[i] /\ b = Append(a, e) /\ log'[i] = b
    <2>1. log[i] \in Seq(Entry) /\ Append(log[i], e) \in Seq(Entry)
        BY <1>3, <1>7, AppendProperties
    <2>2. log'[i] = Append(log[i], e)
        BY <1>1, <1>4 DEF TypeOK
    <2> QED BY <2>1, <2>2
<1>9. Len(b) = l + 2 /\ b[l + 2] = e /\ \A n \in 1 .. l + 1 : b[n] = a[n]
    <2>1. Len(b) = Len(a) + 1 /\ b[Len(a) + 1] = e /\ \A n \in 1 .. Len(a) : b[n] = a[n]
        BY <1>3, <1>8, AppendProperties
    <2> QED BY <1>7, <1>8, <2>1
<1>10. Len(t) = l + 1 /\ \A n \in 1 .. l + 1 : t[n] = b[n + 1]
    <2>1. lastIncludedIndex'[i] = 0
        BY DEF Refining, KeptMore, Kept, NoSnapshots
    <2>2. LastLogIndex(i)' = l + 1
        BY <1>8, <1>9, <2>1 DEF LastLogIndex
    <2> QED BY <1>1, <1>6, <1>8, <2>2 DEF EntriesAt
<1>11. \A n \in 1 .. l : s[n] = a[n + 1]
    BY <1>1, <1>6, <1>8 DEF EntriesAt
<1>12. t = Append(s, e)
    <2>1. /\ Append(s, e) \in Seq(Entry) /\ Len(Append(s, e)) = l + 1 /\ Append(s, e)[l + 1] = e
          /\ \A n \in 1 .. l : Append(s, e)[n] = s[n]
        <3>1. /\ Append(s, e) \in Seq(Entry) /\ Len(Append(s, e)) = Len(s) + 1
              /\ Append(s, e)[Len(s) + 1] = e
              /\ \A n \in 1 .. Len(s) : Append(s, e)[n] = s[n]
            BY <1>3, AppendProperties
        <3> QED BY <1>6, <3>1
    <2>2. \A n \in 1 .. l : t[n] = s[n]
        <3>1. \A n \in 1 .. l : n \in 1 .. l + 1 /\ n + 1 \in 1 .. l + 1
            OBVIOUS
        <3> QED BY <1>9, <1>10, <1>11, <3>1
    <2>3. t[l + 1] = e
        BY <1>9, <1>10
    <2>4. \A n \in 1 .. l + 1 : n \in 1 .. l \/ n = l + 1
        OBVIOUS
    <2> QED BY <1>10, <2>1, <2>2, <2>3, <2>4, SeqEqual
<1>13. Only(i)
    <2>1. \A k \in Node \ {i} : log'[k] = log[k]
        BY <1>1, <1>4 DEF TypeOK
    <2> QED BY <1>4, <2>1 DEF Only, Entries
<1>14. committed' = committed
    BY <1>5, CommittedStill
<1>15. /\ i \in Leading /\ Leading' = Leading
       /\ Logs[i] = s /\ Logs' = [Logs EXCEPT ![i] = t] /\ Logs'[i] = t
       /\ offered' = [offered EXCEPT ![i] = offered[i] \cup {t}]
    <2>1. Logs' = [Logs EXCEPT ![i] = t] /\ offered' = [offered EXCEPT ![i] = offered[i] \cup {t}]
        BY <1>4, <1>6, <1>13, OnlyChanges
    <2> QED BY <1>4, <1>6, <2>1 DEF Leading, Logs
<1>16. RL!Propose(i, e)
    BY <1>4, <1>12, <1>14, <1>15 DEF RL!Propose, Leading, Logs
<1> QED BY <1>3, <1>16

LEMMA AcceptRefined ==
    ASSUME Refining, NEW m \in rpcs, AcceptAppendEntries(m)
    PROVE  /\ m.from \in Node /\ m.to \in Node
           /\ \E s \in offered[m.from] : RL!Replicate(m.from, m.to, s)
<1>1. TypeOK /\ TypeOK' /\ Kept /\ Stepped /\ EntriesKnown /\ EntriesKnown'
    BY StepTypes, StepEntries DEF Refining, KeptMore, Kept
<1>2. m \in Calls /\ Accepts(m.to, m) /\ m.to \in Node
    BY <1>1, AcceptTraced, RpcTypes DEF Accepts, TypeOK
<1>3. m.from \in Node /\ m.from # m.to /\ Entries(m.to)' \in offered[m.from]
    BY <1>1, <1>2, CallLed, JoinOffered
<1>4. PICK j \in Node : j = m.to
    BY <1>2
<1>5. /\ state' = [state EXCEPT ![j] = "Follower"] /\ UNCHANGED lastApplied
      /\ log' = [log EXCEPT ![j] = NewLog(m, j)]
      /\ commitIndex' = [commitIndex EXCEPT ![j] = NewCommitIndex(m, j)]
    BY <1>4 DEF AcceptAppendEntries, HearLeader, BecomeFollower
<1>6. /\ Only(j) /\ state'[j] = "Follower"
      /\ \A k \in Node \ {j} : commitIndex'[k] = commitIndex[k]
    <2>1. \A k \in Node \ {j} : /\ log'[k] = log[k] /\ state'[k] = state[k]
                                /\ commitIndex'[k] = commitIndex[k]
        BY <1>1, <1>5 DEF TypeOK
    <2> QED BY <1>1, <1>5, <2>1 DEF Only, Entries, TypeOK
<1>7. committed' = committed
    BY <1>6, CommittedStill
<1>8. PICK s \in Seq(Entry), k \in Nat, c \in Nat :
          s = Entries(j)' /\ k = lastApplied[j] /\ c = commitIndex[j]
    BY <1>1 DEF EntriesKnown, EntriesAt, TypeOK
<1>9. k <= c /\ CommitsSecure
    BY <1>8 DEF Refining, KeptMore, CommitInv, AppliedCommitted
<1>10. k <= Len(committed) /\ committed \in Seq(Entry) /\ \A n \in 1 .. k : Has(j, n, committed[n])
    BY <1>8, <1>9, DeliveredAgrees
<1>11. ASSUME NEW n \in 1 .. k PROVE n \in 1 .. Len(s) /\ s[n] = committed[n]
    <2>1. PICK x : x = committed[n] /\ Has(j, n, x)
        BY <1>10
    <2>2. Has(j, n, x)'
        BY <1>1, <1>8, <1>9, <2>1, PrefixKept
    <2>3. EntriesAt(j)'
        BY <1>1 DEF EntriesKnown
    <2>4. n \in 1 .. Len(s) /\ s[n] = x
        BY <1>8, <2>2, <2>3 DEF Has, Holds, EntriesAt
    <2> QED BY <2>1, <2>4
<1>12. k <= Len(s)
    <2>1. CASE k = 0
        BY <2>1, LenProperties
    <2>2. CASE k # 0
        <3>1. k \in 1 .. k
            BY <2>2
        <3> QED BY <1>11, <3>1
    <2> QED BY <2>1, <2>2
<1>13. RL!Agrees(s, lastApplied[j])
    BY <1>8, <1>10, <1>11, <1>12, AgreesWhen
<1>14. Leading' = Leading \ {j} /\ Logs' = [Logs EXCEPT ![j] = s]
    BY <1>6, <1>8, OnlyChanges
<1>15. offered' = offered
    <2>1. offered' = [offered EXCEPT ![j] = offered[j] \cup {}]
        BY <1>6, OnlyChanges
    <2> QED BY <1>1, <2>1 DEF Kept, HistoryTypes
<1>16. RL!Replicate(m.from, j, s)
    BY <1>3, <1>4, <1>5, <1>7, <1>8, <1>13, <1>14, <1>15 DEF RL!Replicate, Leading, Logs
<1> QED BY <1>2, <1>3, <1>4, <1>8, <1>16

\* The entry that a leader commits is of its term.
LEMMA CountedTerm ==
    ASSUME Refining, NEW i \in Node, CountsCommit(i), NEW n \in Nat, n = commitIndex'[i]
    PROVE  n # 0 /\ currentTerm[i] \in Nat /\ LogChain(i)'.at[n].term = currentTerm[i]
<1>1. n > commitIndex[i] /\ LogTerm(i, n)' = currentTerm[i]
    BY DEF CountsCommit
<1>2. TypeOK /\ TypeOK' /\ NoSnapshots'
    BY StepTypes DEF Refining, KeptMore, Kept
<1>3. TermsOfLogs'
    <2>1. (TypeOK /\ NoSnapshots => TermsOfLogs)'
        BY LogTermIs, PTL
    <2> QED BY <1>2, <2>1
<1>4. n # 0 /\ currentTerm[i] \in Nat
    BY <1>1, <1>2 DEF TypeOK
<1> QED BY <1>1, <1>3, <1>4 DEF TermsOfLogs

\* A leader that commits has all the entries that are committed already: in its own term
\* or before, because those are lasting; and those of a later term would be the end of a log
\* that has no entry of the leader's there.
LEMMA CommitRefined ==
    ASSUME Refining, NEW i \in Node, state[i] = "Leader",
           UNCHANGED <<log, state, lastIncludedIndex, lastIncludedTerm, lastApplied>>,
           NewlyCommits(i)
    PROVE  \E n \in 1 .. Len(Entries(i)) : RL!Commit(i, n)
<1>1. /\ CommitInv /\ Stepped /\ EntriesKnown /\ OffersAgree /\ LogsOffered /\ CommittedLasts
      /\ committed \in Seq(Entry) /\ CommitInv'
    BY StepEntries DEF Refining, KeptMore, Kept, HistoryTypes
<1>2. \A k \in Node : Entries(k)' = Entries(k) /\ LogChain(k)' = LogChain(k)
    BY DEF Entries, LogChain, LastLogIndex, EntryAt
<1>3. PICK n \in Nat, l \in Nat, s \in Seq(Entry) :
          n = commitIndex'[i] /\ l = Len(committed) /\ s = Entries(i)
    BY <1>1, LenProperties DEF NewlyCommits, EntriesKnown, EntriesAt
<1>4. /\ l < n /\ n <= Len(s) /\ committed' = SubSeq(s, 1, n) /\ CountsCommit(i)
    BY <1>2, <1>3 DEF NewlyCommits
<1>5. n # 0 /\ currentTerm[i] \in Nat /\ LogChain(i).at[n].term = currentTerm[i]
    BY <1>2, <1>3, <1>4, CountedTerm
<1>6. ASSUME l # 0 PROVE Has(i, l, committed[l])
    <2>1. PICK c : c = committed[l] /\ Secure(l, c)
        BY <1>1, <1>3, <1>6 DEF CommittedLasts
    <2>2. PICK j \in Node : Has(j, l, c)
        <3>1. PICK Q \in SUBSET Node : IsMajority(Q) /\ \A k \in Q : Has(k, l, c)
            BY <2>1 DEF Secure, KeptByMajority, Keeps
        <3>2. PICK k \in Node : k \in Q
            BY <3>1, MajoritiesMeet
        <3> QED BY <3>1, <3>2
    <2>3. c.term \in Nat
        BY <1>1, <2>2, HasType
    <2>4. CASE currentTerm[i] >= c.term
        BY <2>1, <2>4 DEF Secure, Lasting
    <2>5. CASE ~(currentTerm[i] >= c.term)
        <3>1. PICK x : x = LogChain(i).at[n] /\ Secure(n, x)'
            <4>1. n \in Nat \ {0}
                BY <1>5
            <4>2. \E x : x = Entries(i)'[n] /\ Has(i, n, x)' /\ Secure(n, x)'
                BY <1>3, <4>1, CommittedNow DEF Refining
            <4>3. LogChain(i)'.at[n] = LogChain(i).at[n]
                BY <1>2
            <4> QED BY <4>2, <4>3 DEF Has, Holds
        <3>2. PICK d : d = LogChain(j) /\ d = LogChain(j)'
            BY <1>2
        <3>3. Respects(d, n, x)
            BY <3>1, <3>2 DEF Secure, Lasting, Chains
        <3>4. l \in Owned(d) /\ d.at[l].term > x.term
            BY <1>5, <2>2, <2>3, <2>5, <3>1, <3>2 DEF Has, Holds
        <3>5. l >= n
            BY <3>3, <3>4 DEF Respects
        <3> QED BY <1>4, <3>5
    <2> QED BY <2>1, <2>4, <2>5
<1>7. l <= Len(s) /\ \A k \in 1 .. l : s[k] = committed[k]
    <2>1. CASE l = 0
        BY <2>1, LenProperties
    <2>2. CASE l # 0
        <3>1. l \in Nat \ {0} /\ Has(i, l, committed[l])
            BY <1>6, <2>2
        <3> QED BY <1>1, <1>3, <3>1, LastShared
    <2> QED BY <2>1, <2>2
<1>8. RL!Agrees(s, Len(committed))
    BY <1>1, <1>3, <1>7, AgreesWhen
<1>9. offered' = offered
    <2>1. Only(i) /\ state'[i] = "Leader"
        BY <1>2 DEF Only
    <2>2. offered' = [offered EXCEPT ![i] = offered[i] \cup {Entries(i)'}]
        BY <2>1, OnlyChanges
    <2>3. offered' = [offered EXCEPT ![i] = offered[i] \cup {s}]
        BY <1>2, <1>3, <2>2
    <2>4. offered \in [Node -> SUBSET Seq(Entry)] /\ s \in offered[i]
        BY <1>1, <1>3 DEF Refining, KeptMore, Kept, HistoryTypes, LogsOffered
    <2> QED BY <2>3, <2>4
<1>10. i \in Leading /\ Leading' = Leading /\ Logs' = Logs /\ Logs[i] = s
    BY <1>2, <1>3 DEF Leading, Logs
<1>11. RL!Commit(i, n)
    BY <1>3, <1>4, <1>8, <1>9, <1>10 DEF RL!Commit, Leading, Logs
<1>12. n \in 1 .. Len(s)
    BY <1>4, <1>5, LenProperties
<1> QED BY <1>3, <1>11, <1>12

LEMMA HearsRefined ==
    ASSUME Refining, NEW m \in rpcs, Hears(m)
    PROVE  [RL!Next]_(RL!logVars)
<1>1. PICK i \in Node : i = m.from
    BY StepTypes, RpcTypes DEF Refining, KeptMore, Kept, TypeOK
<1>2. /\ state[i] = "Leader"
      /\ UNCHANGED <<log, state, lastIncludedIndex, lastIncludedTerm, lastApplied>>
    BY <1>1 DEF Hears, HandleAppendEntriesReply, persistentVars, roleVars
<1>3. \A k \in Node : Entries(k)' = Entries(k)
    BY <1>2 DEF Entries
<1>4. \A k \in Node \ {i} : commitIndex'[k] = commitIndex[k]
    <2>1. \E n : commitIndex' = [commitIndex EXCEPT ![i] = n]
        BY <1>1 DEF Hears, UpdateCommitIndex
    <2> QED BY <2>1, StepTypes DEF Refining, KeptMore, Kept, TypeOK
<1>5. CASE committed' = committed
    <2>1. Only(i) /\ state'[i] = "Leader"
        BY <1>2, <1>3 DEF Only
    <2>2. offered' = [offered EXCEPT ![i] = offered[i] \cup {Entries(i)'}]
        BY <2>1, OnlyChanges
    <2>3. offered \in [Node -> SUBSET Seq(Entry)] /\ Entries(i)' \in offered[i]
        BY <1>2, <1>3 DEF Refining, KeptMore, Kept, HistoryTypes, LogsOffered
    <2>4. offered' = offered /\ Leading' = Leading /\ Logs' = Logs
        BY <1>2, <1>3, <2>2, <2>3 DEF Leading, Logs
    <2> QED BY <1>2, <1>5, <2>4 DEF RL!logVars, Leading, Logs
<1>6. ASSUME NEW k \in Node, NewlyCommits(k) PROVE RL!Next
    <2>1. k = i
        <3>1. \E n \in Nat : n = commitIndex'[k] /\ n > commitIndex[k]
            BY <1>6 DEF NewlyCommits, CountsCommit
        <3>2. commitIndex[k] \in Nat
            BY StepTypes DEF Refining, KeptMore, Kept, TypeOK
        <3> QED BY <1>4, <3>1, <3>2
    <2>2. PICK n \in 1 .. Len(Entries(i)) : RL!Commit(i, n)
        BY <1>2, <1>6, <2>1, CommitRefined
    <2>3. Logs[i] = Entries(i)
        BY DEF Logs
    <2> QED BY <2>2, <2>3 DEF RL!Next, Logs
<1> QED BY <1>5, <1>6, CommittedGrows DEF Refining

-----------------------------------------------------------------------------
(* The theorems. *)

LEMMA StepRefined ==
    ASSUME OrderlyNetwork, Cardinality(Node) > 1, HistoryInv, [HistoryNext]_<<vars, historyVars>>
    PROVE  HistoryInv' /\ [RL!Next]_(RL!logVars)
<1>1. HistoryInv' /\ KeptMore
    BY HistoryStep
<1>2. CASE UNCHANGED <<vars, historyVars>>
    <2>1. UNCHANGED <<state, log, lastApplied, offered, committed>>
        BY <1>2 DEF vars, historyVars, persistentVars, roleVars, commitVars
    <2>2. Leading' = Leading /\ Logs' = Logs
        BY <2>1 DEF Leading, Logs, Entries
    <2> QED BY <1>1, <2>1, <2>2 DEF RL!logVars, Leading, Logs
<1>3. CASE HistoryNext
    <2> SUFFICES [RL!Next]_(RL!logVars)
        BY <1>1
    <2>1. Refining /\ TermsBounded /\ Kinds
        BY <1>1, <1>3, StepKinds DEF Refining, KeptMore, Kept, HistoryInv
    <2>2. CASE \E i \in Node : Quiet(i)
        BY <2>1, <2>2, QuietRefined
    <2>3. CASE \E i \in Node : \E command \in Value : Start(i, command)
        BY <2>1, <2>3, StartRefined DEF RL!Next
    <2>4. CASE \E i \in Node : ApplierTake(i)
        BY <2>1, <2>4, TakeRefined DEF RL!Next
    <2>5. CASE \E i \in Node : Restart(i)
        BY <2>1, <2>5, RestartRefined DEF RL!Next
    <2>6. CASE \E m \in rpcs : AcceptAppendEntries(m)
        BY <2>1, <2>6, AcceptRefined DEF RL!Next
    <2>7. CASE \E m \in rpcs : Hears(m)
        BY <2>1, <2>7, HearsRefined
    <2> QED BY <2>1, <2>2, <2>3, <2>4, <2>5, <2>6, <2>7 DEF Kinds
<1> QED BY <1>1, <1>2, <1>3

LEMMA InitRefined == HistoryInit => RL!Init
<1> SUFFICES ASSUME HistoryInit PROVE RL!Init
    OBVIOUS
<1>1. Init /\ offered = [i \in Node |-> {}] /\ committed = << >>
    BY DEF HistoryInit
<1>2. \A i \in Node : Entries(i) = << >> /\ state[i] = "Follower"
    <2> SUFFICES ASSUME NEW i \in Node PROVE Entries(i) = << >> /\ state[i] = "Follower"
        OBVIOUS
    <2>1. state[i] = "Follower" /\ lastIncludedIndex[i] = 0 /\ Len(log[i]) = 1
        BY <1>1 DEF Init
    <2>2. EntriesKnown
        BY <1>1, InitCommit, EntriesAre DEF CommitInv, MatchingInv, ElectionInv
    <2>3. Entries(i) \in Seq(Entry) /\ Len(Entries(i)) = 0
        BY <2>1, <2>2 DEF EntriesKnown, EntriesAt, LastLogIndex
    <2> QED BY <2>1, <2>3, EmptySeq
<1>3. lastApplied = [i \in Node |-> 0]
    BY <1>1 DEF Init
<1>4. Leading = {} /\ Logs = [i \in Node |-> << >>]
    BY <1>2 DEF Leading, Logs
<1> QED BY <1>1, <1>3, <1>4 DEF RL!Init, Leading, Logs

\* HistoryInv is inductive: whatever log there is, a leader has had it, and the logs that
\* leaders have had at any time agree.
THEOREM HistoryInvariant ==
    OrderlyNetwork /\ Cardinality(Node) > 1 /\ HistorySpec => []HistoryInv
<1> SUFFICES ASSUME OrderlyNetwork, Cardinality(Node) > 1
             PROVE  HistorySpec => []HistoryInv
    OBVIOUS
<1>1. HistoryInv /\ [HistoryNext]_<<vars, historyVars>> => HistoryInv'
    BY HistoryStep
<1> QED BY <1>1, InitHistory, PTL DEF HistorySpec

\* In an environment in which committed entries last, the nodes of raft.go are a replicated
\* log for the services: whatever a node's log becomes, some node has had as its leader's;
\* there is one sequence of committed entries, which grows and is delivered in order.
THEOREM ImplementsLog ==
    OrderlyNetwork /\ Cardinality(Node) > 1 /\ HistorySpec => ImplementsRaftLog
<1> SUFFICES ASSUME OrderlyNetwork, Cardinality(Node) > 1
             PROVE  HistorySpec => ImplementsRaftLog
    OBVIOUS
<1>1. HistoryInv /\ [HistoryNext]_<<vars, historyVars>> => HistoryInv' /\ [RL!Next]_(RL!logVars)
    BY StepRefined
<1> QED BY <1>1, InitHistory, InitRefined, PTL DEF HistorySpec, ImplementsRaftLog, RL!Spec
=============================================================================
