---------------------------- MODULE RaftLogProofs ----------------------------
(***************************************************************************)
(* Theorems about the logs of Raft, for every cluster, command set and     *)
(* bound.                                                                  *)
(*                                                                         *)
(* Entries are not only in logs: append requests carry them, and one that  *)
(* is delayed brings back what its sender's log held long ago.  So a piece *)
(* is a stretch of a log, with its place and the term of the entry before  *)
(* it: every log is one, and so is what every request carries.  The        *)
(* invariants are about pieces.                                            *)
(***************************************************************************)
EXTENDS RaftProofs

Piece == [at : Nat, prevTerm : Nat, entries : Seq(Entry)]

LogPiece(lg) == [at |-> 0, prevTerm |-> 0, entries |-> lg]
RequestPiece(r) ==
    [at |-> r.prevIndex + 1, prevTerm |-> r.prevTerm, entries |-> r.entries]

\* A piece holds the places after p.at.
Has(p, x) == x \in (p.at + 1)..(p.at + Len(p.entries))
At(p, x) == p.entries[x - p.at]
TermAt(p, x) == IF x = p.at THEN p.prevTerm ELSE At(p, x).term

\* Where two pieces hold entries of one term at one place, they are equal
\* there and before, as far as both reach.
Match(p, q) ==
    \A x \in Nat : Has(p, x) /\ Has(q, x) /\ At(p, x).term = At(q, x).term =>
        \A y \in 0..x :
            /\ Has(p, y) /\ Has(q, y) => At(p, y) = At(q, y)
            /\ y >= p.at /\ y >= q.at => TermAt(p, y) = TermAt(q, y)

\* q is cut out of p.
SliceOf(q, p) == \A x \in Nat : Has(q, x) =>
    /\ Has(p, x) /\ At(q, x) = At(p, x)
    /\ q.at >= p.at /\ TermAt(q, q.at) = TermAt(p, q.at)

LogPieces == {LogPiece(log[n]) : n \in Node}
RequestPieces == {RequestPiece(r) : r \in appendReqs}
Pieces == LogPieces \cup RequestPieces

-----------------------------------------------------------------------------
\* Facts about pieces

\* A log as a piece: it starts at the first place, with no term before it.
LEMMA LogPieceFacts ==
    ASSUME NEW lg \in Seq(Entry)
    PROVE  /\ LogPiece(lg) \in Piece
           /\ LogPiece(lg).at = 0 /\ TermAt(LogPiece(lg), 0) = 0
           /\ \A x : Has(LogPiece(lg), x) <=> x \in 1..Len(lg)
           /\ \A x \in Nat : At(LogPiece(lg), x) = lg[x]
<1>1. Len(lg) \in Nat
  OBVIOUS
<1>2. LogPiece(lg) \in Piece
  BY DEF LogPiece, Piece
<1>3. \A x \in Nat : x - 0 = x
  OBVIOUS
<1> HIDE DEF Entry
<1> QED BY <1>1, <1>2, <1>3 DEF LogPiece, Has, At, TermAt

\* The log of a new process holds nothing.
LEMMA EmptyLog == \A x \in Nat : ~Has(LogPiece(<<>>), x)
<1>1. LogPiece(<<>>).at = 0 /\ LogPiece(<<>>).entries = <<>> /\ Len(<<>>) = 0
  BY DEF LogPiece
<1> QED BY <1>1 DEF Has

\* The entries of an append request as a piece: they follow prev_log_index.
LEMMA RequestPieceFacts ==
    ASSUME NEW r \in AppendRequest
    PROVE  /\ RequestPiece(r) \in Piece
           /\ RequestPiece(r).at = r.prevIndex + 1
           /\ TermAt(RequestPiece(r), r.prevIndex + 1) = r.prevTerm
           /\ \A x \in Nat : Has(RequestPiece(r), x) <=>
                 x - r.prevIndex - 1 \in 1..Len(r.entries)
           /\ \A x \in Nat : At(RequestPiece(r), x) = r.entries[x - r.prevIndex - 1]
<1>1. /\ r.prevIndex \in Int /\ r.prevIndex + 1 \in Nat /\ r.prevTerm \in Nat
      /\ r.entries \in Seq(Entry) /\ Len(r.entries) \in Nat
  BY DEF AppendRequest, Index
<1>2. RequestPiece(r) \in Piece
  BY <1>1 DEF RequestPiece, Piece
<1>3. /\ RequestPiece(r).at = r.prevIndex + 1
      /\ RequestPiece(r).prevTerm = r.prevTerm
      /\ RequestPiece(r).entries = r.entries
  BY DEF RequestPiece
<1>4. TermAt(RequestPiece(r), r.prevIndex + 1) = r.prevTerm
  BY <1>3 DEF TermAt
<1>5. ASSUME NEW x \in Nat
      PROVE  /\ Has(RequestPiece(r), x) <=>
                   x - r.prevIndex - 1 \in 1..Len(r.entries)
             /\ At(RequestPiece(r), x) = r.entries[x - r.prevIndex - 1]
  <2>1. x - (r.prevIndex + 1) = x - r.prevIndex - 1
    BY <1>1
  <2>2. At(RequestPiece(r), x) = r.entries[x - r.prevIndex - 1]
    BY <1>3, <2>1 DEF At
  <2>3. Has(RequestPiece(r), x) <=> x - r.prevIndex - 1 \in 1..Len(r.entries)
    BY SMTT(30), <1>1, <1>3 DEF Has
  <2> QED BY <2>2, <2>3
<1> QED BY <1>2, <1>3, <1>4, <1>5

\* What a piece holds are entries, all beyond its start.
LEMMA PieceEntry ==
    ASSUME NEW p \in Piece, NEW x \in Nat, Has(p, x)
    PROVE  At(p, x) \in Entry /\ x > p.at /\ At(p, x).term \in Nat
<1>1. /\ x - p.at \in 1..Len(p.entries) /\ p.entries \in Seq(Entry)
      /\ p.at \in Nat
  BY DEF Has, Piece
<1>2. At(p, x) \in Entry
  BY <1>1, ElementOfSeq DEF At
<1>3. x > p.at
  BY <1>1
<1> QED BY <1>2, <1>3 DEF Entry

\* A piece reaches without a gap from its place to any entry it holds.
LEMMA PieceHasBelow ==
    ASSUME NEW p \in Piece, NEW x \in Nat, NEW y \in 0..x, Has(p, x), y > p.at
    PROVE  Has(p, y)
BY DEF Has, Piece

\* Whether two pieces match does not depend on which is named first.
LEMMA MatchSymmetric ==
    ASSUME NEW p, NEW q, Match(p, q)
    PROVE  Match(q, p)
BY DEF Match

\* Every piece matches itself.
LEMMA MatchSelf == \A p : Match(p, p)
BY DEF Match

\* What _send_append_entries cuts out of a log matches whatever the log matches.
LEMMA SliceMatches ==
    ASSUME NEW p \in Piece, NEW q \in Piece, NEW b \in Piece,
           SliceOf(q, p), Match(p, b)
    PROVE  Match(q, b)
<1> SUFFICES ASSUME NEW x \in Nat, Has(q, x), Has(b, x),
                    At(q, x).term = At(b, x).term, NEW y \in 0..x
             PROVE  /\ Has(q, y) /\ Has(b, y) => At(q, y) = At(b, y)
                    /\ y >= q.at /\ y >= b.at => TermAt(q, y) = TermAt(b, y)
  BY DEF Match
<1>1. Has(p, x) /\ At(p, x).term = At(b, x).term /\ q.at >= p.at
  BY DEF SliceOf
<1>2. /\ Has(p, y) /\ Has(b, y) => At(p, y) = At(b, y)
      /\ y >= p.at /\ y >= b.at => TermAt(p, y) = TermAt(b, y)
  BY <1>1 DEF Match
<1>3. y \in Nat /\ q.at \in Nat /\ p.at \in Nat
  BY DEF Piece
<1>4. Has(q, y) /\ Has(b, y) => At(q, y) = At(b, y)
  BY <1>2, <1>3 DEF SliceOf
<1>5. ASSUME y >= q.at, y >= b.at PROVE TermAt(q, y) = TermAt(b, y)
  <2>1. TermAt(p, y) = TermAt(b, y)
    BY <1>1, <1>2, <1>3, <1>5
  <2>2. CASE y = q.at
    BY <2>1, <2>2 DEF SliceOf
  <2>3. CASE y # q.at
    <3>1. Has(q, y)
      BY <1>3, <1>5, <2>3, PieceHasBelow
    <3>2. At(q, y) = At(p, y) /\ Has(p, y)
      BY <1>3, <3>1 DEF SliceOf
    <3>3. y # p.at
      BY <1>3, <3>2, PieceEntry
    <3> QED BY <2>1, <2>3, <3>2, <3>3 DEF TermAt
  <2> QED BY <2>2, <2>3
<1> QED BY <1>4, <1>5

\* Where the entries of a merged log come from.
LEMMA MergeEntriesResult ==
    ASSUME NEW lg \in Seq(Entry), NEW prev \in Index, prev < Len(lg),
           NEW entries \in Seq(Entry)
    PROVE  LET m == MergeEntries(lg, prev, entries)
               same(k) == /\ prev + 1 + k <= Len(lg)
                          /\ lg[prev + 1 + k].term = entries[k].term
           IN  \/ m = lg /\ \A k \in 1..Len(entries) : same(k)
               \/ /\ Len(m) = prev + 1 + Len(entries)
                  /\ \A j \in 1..(prev + 1) : m[j] = lg[j]
                  /\ \A k \in 1..Len(entries) :
                        \/ m[prev + 1 + k] = entries[k]
                        \/ /\ m[prev + 1 + k] = lg[prev + 1 + k]
                           /\ \A l \in 1..k : same(l)
<1> DEFINE m == MergeEntries(lg, prev, entries)
           same(k) == /\ prev + 1 + k <= Len(lg)
                      /\ lg[prev + 1 + k].term = entries[k].term
           end == prev + 1 + Len(entries)
           agrees(i) == i <= Len(lg) /\ lg[i].term = entries[i - prev - 1].term
           at(j) == IF \A i \in (prev + 2)..j : agrees(i) THEN lg[j]
                    ELSE entries[j - prev - 1]
<1>1. end \in Nat /\ prev \in Int /\ prev >= -1 /\ Len(lg) \in Nat /\ Len(entries) \in Nat
  BY DEF Index
<1>2. ASSUME NEW k \in 1..Len(entries) PROVE agrees(prev + 1 + k) <=> same(k)
  <2>1. (prev + 1 + k) - prev - 1 = k
    BY <1>1
  <2> QED BY <2>1
<1>3. ASSUME NEW k \in 1..Len(entries), \A i \in (prev + 2)..(prev + 1 + k) : agrees(i)
      PROVE  \A l \in 1..k : same(l)
  <2> SUFFICES ASSUME NEW l \in 1..k PROVE same(l)
    OBVIOUS
  <2>1. prev + 1 + l \in (prev + 2)..(prev + 1 + k) /\ l \in 1..Len(entries)
    BY <1>1
  <2> QED BY <1>2, <1>3, <2>1
<1>4. CASE \A i \in (prev + 2)..end : agrees(i)
  <2>1. m = lg
    BY <1>4 DEF MergeEntries
  <2>2. \A k \in 1..Len(entries) : same(k)
    <3> SUFFICES ASSUME NEW k \in 1..Len(entries) PROVE same(k)
      OBVIOUS
    <3>1. prev + 1 + k \in (prev + 2)..end
      BY <1>1
    <3> QED BY <1>2, <1>4, <3>1
  <2> QED BY <2>1, <2>2
<1>5. CASE ~\A i \in (prev + 2)..end : agrees(i)
  <2>1. m = [j \in 1..end |-> at(j)]
    BY <1>5 DEF MergeEntries
  <2>2. Len(m) = end
    BY <1>1, <2>1
  <2>3. ASSUME NEW j \in 1..(prev + 1) PROVE m[j] = lg[j]
    <3>1. j \in 1..end /\ \A i \in (prev + 2)..j : agrees(i)
      BY <1>1
    <3> QED BY <2>1, <3>1
  <2>4. ASSUME NEW k \in 1..Len(entries)
        PROVE  \/ m[prev + 1 + k] = entries[k]
               \/ m[prev + 1 + k] = lg[prev + 1 + k] /\ \A l \in 1..k : same(l)
    <3>1. prev + 1 + k \in 1..end /\ (prev + 1 + k) - prev - 1 = k
      BY <1>1
    <3>2. m[prev + 1 + k] = at(prev + 1 + k)
      BY <2>1, <3>1
    <3>3. CASE \A i \in (prev + 2)..(prev + 1 + k) : agrees(i)
      <4>1. m[prev + 1 + k] = lg[prev + 1 + k]
        BY <3>2, <3>3
      <4>2. \A l \in 1..k : same(l)
        BY <1>3, <3>3
      <4> QED BY <4>1, <4>2
    <3>4. CASE ~\A i \in (prev + 2)..(prev + 1 + k) : agrees(i)
      BY <3>1, <3>2, <3>4
    <3> QED BY <3>3, <3>4
  <2> QED BY <2>2, <2>3, <2>4
<1> QED BY <1>4, <1>5

\* After a merge the log is what it was, or it ends with the request: up to the
\* request's place the entries are the log's, from there on they have the terms
\* of the request's.
LEMMA MergedPiece ==
    ASSUME NEW lg \in Seq(Entry), NEW r \in AppendRequest, PrevMatches(r, lg)
    PROVE  LET m == MergeEntries(lg, r.prevIndex, r.entries)
               M == LogPiece(m)
               L == LogPiece(lg)
               R == RequestPiece(r)
           IN  /\ m \in Seq(Entry)
               /\ \/ m = lg
                  \/ /\ \A x \in Nat : Has(M, x) <=> x \in 1..(R.at + Len(r.entries))
                     /\ \A x \in 1..R.at : Has(L, x) /\ At(M, x) = At(L, x)
                     /\ \A x \in Nat : Has(M, x) /\ x > R.at =>
                           /\ Has(R, x) /\ At(M, x).term = At(R, x).term
                           /\ \/ At(M, x) = At(R, x)
                              \/ Has(L, x) /\ At(M, x) = At(L, x)
<1> DEFINE prev == r.prevIndex
           m == MergeEntries(lg, prev, r.entries)
           M == LogPiece(m)
           L == LogPiece(lg)
           R == RequestPiece(r)
           same(k) == /\ prev + 1 + k <= Len(lg)
                      /\ lg[prev + 1 + k].term = r.entries[k].term
<1>1. /\ prev \in Index /\ prev \in Int /\ prev + 1 \in Nat /\ r.entries \in Seq(Entry)
      /\ Len(r.entries) \in Nat /\ Len(lg) \in Nat /\ prev < Len(lg)
  BY DEF AppendRequest, Index, PrevMatches
<1>2. m \in Seq(Entry)
  BY <1>1, MergeEntriesType
<1>3. CASE m = lg
  BY <1>2, <1>3
<1>4. CASE m # lg
  <2>1. /\ Len(m) = prev + 1 + Len(r.entries)
        /\ \A j \in 1..(prev + 1) : m[j] = lg[j]
        /\ \A k \in 1..Len(r.entries) :
              \/ m[prev + 1 + k] = r.entries[k]
              \/ m[prev + 1 + k] = lg[prev + 1 + k] /\ \A l \in 1..k : same(l)
    <3> HIDE DEF Entry
    <3> QED BY <1>1, <1>4, MergeEntriesResult
  <2>2. R.at = prev + 1
    BY RequestPieceFacts
  <2>3. \A x \in Nat : Has(M, x) <=> x \in 1..(R.at + Len(r.entries))
    BY <1>2, <2>1, <2>2, LogPieceFacts
  <2>4. ASSUME NEW x \in 1..R.at PROVE Has(L, x) /\ At(M, x) = At(L, x)
    <3>1. x \in Nat /\ x \in 1..Len(lg) /\ x \in 1..(prev + 1)
      BY <1>1, <2>2
    <3> HIDE DEF m
    <3> QED BY <1>2, <2>1, <3>1, LogPieceFacts
  <2>5. ASSUME NEW x \in Nat, Has(M, x), x > R.at
        PROVE  /\ Has(R, x) /\ At(M, x).term = At(R, x).term
               /\ \/ At(M, x) = At(R, x)
                  \/ Has(L, x) /\ At(M, x) = At(L, x)
    <3> DEFINE k == x - prev - 1
    <3>1. k \in 1..Len(r.entries) /\ x = prev + 1 + k
      <4>1. x \in 1..(prev + 1 + Len(r.entries)) /\ x > prev + 1
        BY <2>2, <2>3, <2>5
      <4>2. \A a \in Int, l \in Nat, z \in Nat :
              z \in 1..(a + 1 + l) /\ z > a + 1 =>
                 z - a - 1 \in 1..l /\ z = a + 1 + (z - a - 1)
        OBVIOUS
      <4> QED BY <1>1, <4>1, <4>2
    <3>2. Has(R, x) /\ At(R, x) = r.entries[k]
      BY <3>1, RequestPieceFacts
    <3>3. At(M, x) = m[x]
      BY <1>2, LogPieceFacts
    <3>4. CASE m[x] = r.entries[k]
      BY <3>2, <3>3, <3>4
    <3>5. CASE m[x] = lg[x] /\ same(k)
      <4>1. x \in 1..Len(lg)
        BY <1>1, <3>1, <3>5
      <4>2. Has(L, x) /\ At(L, x) = lg[x]
        BY <4>1, LogPieceFacts
      <4>3. At(L, x).term = At(R, x).term
        BY <3>1, <3>2, <3>5, <4>2
      <4> QED BY <3>2, <3>3, <3>5, <4>2, <4>3
    <3>6. k \in 1..k
      BY <3>1
    <3> HIDE DEF k, m
    <3> QED BY <2>1, <3>1, <3>4, <3>5, <3>6
  <2> QED BY <1>2, <2>3, <2>4, <2>5
<1> QED BY <1>3, <1>4

\* Up to the request's place the terms of a log and of the log merged with the
\* request agree, and at that place with what the request says.
LEMMA MergedTerms ==
    ASSUME NEW lg \in Seq(Entry), NEW r \in AppendRequest, PrevMatches(r, lg),
           r.prevIndex = -1 => r.prevTerm = 0
    PROVE  LET M == LogPiece(MergeEntries(lg, r.prevIndex, r.entries))
               L == LogPiece(lg)
               R == RequestPiece(r)
           IN  /\ M \in Piece /\ L \in Piece /\ R \in Piece
               /\ M.at = 0 /\ L.at = 0 /\ R.at \in Nat
               /\ \A x \in Nat : x > 0 => /\ TermAt(M, x) = At(M, x).term
                                          /\ TermAt(L, x) = At(L, x).term
               /\ \A x \in 0..R.at : TermAt(M, x) = TermAt(L, x)
               /\ TermAt(M, R.at) = TermAt(R, R.at)
<1> DEFINE m == MergeEntries(lg, r.prevIndex, r.entries)
           M == LogPiece(m)
           L == LogPiece(lg)
           R == RequestPiece(r)
<1>1. /\ m \in Seq(Entry)
      /\ \/ m = lg
         \/ \A x \in 1..R.at : At(M, x) = At(L, x)
  BY MergedPiece
<1>2. r.prevIndex \in Index /\ r.prevIndex < Len(lg)
  BY DEF AppendRequest, PrevMatches
<1>3. /\ M \in Piece /\ L \in Piece /\ R \in Piece
      /\ M.at = 0 /\ L.at = 0 /\ R.at = r.prevIndex + 1 /\ R.at \in Nat
      /\ TermAt(M, 0) = 0 /\ TermAt(L, 0) = 0 /\ TermAt(R, R.at) = r.prevTerm
  <2>1. r.prevIndex + 1 \in Nat
    BY <1>2 DEF Index
  <2> QED BY <1>1, <2>1, LogPieceFacts, RequestPieceFacts
<1>4. \A x \in Nat : x > 0 => /\ TermAt(M, x) = At(M, x).term
                             /\ TermAt(L, x) = At(L, x).term
  BY <1>3 DEF TermAt
<1>5. ASSUME NEW x \in 0..R.at PROVE TermAt(M, x) = TermAt(L, x)
  <2>1. CASE x = 0
    BY <1>3, <2>1
  <2>2. CASE x > 0
    BY <1>1, <1>3, <1>4, <2>2
  <2> QED BY <1>3, <2>1, <2>2
<1>6. TermAt(L, R.at) = r.prevTerm
  <2>1. CASE R.at = 0
    <3>1. r.prevIndex = -1
      BY <1>2, <1>3, <2>1 DEF Index
    <3> QED BY <1>3, <2>1, <3>1
  <2>2. CASE R.at > 0
    <3>1. r.prevIndex # -1 /\ r.prevIndex + 1 \in Nat
      BY <1>2, <1>3, <2>2 DEF Index
    <3>2. lg[R.at].term = r.prevTerm
      BY <1>3, <3>1 DEF PrevMatches
    <3>3. TermAt(L, R.at) = lg[R.at].term
      BY <1>3, <1>4, <2>2, LogPieceFacts
    <3> QED BY <3>2, <3>3
  <2> QED BY <1>3, <2>1, <2>2
<1>7. R.at \in 0..R.at
  BY <1>3
<1> HIDE DEF m, M, L, R
<1>8. TermAt(M, R.at) = TermAt(R, R.at)
  BY <1>3, <1>5, <1>6, <1>7
<1> QED BY <1>3, <1>4, <1>5, <1>8 DEF M, L, R, m

\* A log that a request was merged into matches whatever the log and the
\* request match.
LEMMA MergeMatches ==
    ASSUME NEW lg \in Seq(Entry), NEW r \in AppendRequest, PrevMatches(r, lg),
           r.prevIndex = -1 => r.prevTerm = 0,
           Match(LogPiece(lg), RequestPiece(r)),
           NEW b \in Piece, Match(LogPiece(lg), b), Match(RequestPiece(r), b)
    PROVE  Match(LogPiece(MergeEntries(lg, r.prevIndex, r.entries)), b)
<1> DEFINE m == MergeEntries(lg, r.prevIndex, r.entries)
           M == LogPiece(m)
           L == LogPiece(lg)
           R == RequestPiece(r)
<1>1. CASE m = lg
  BY <1>1
<1>2. CASE m # lg
  <2>1. /\ \A x \in Nat : Has(M, x) <=> x \in 1..(R.at + Len(r.entries))
        /\ \A x \in 1..R.at : Has(L, x) /\ At(M, x) = At(L, x)
        /\ \A x \in Nat : Has(M, x) /\ x > R.at =>
              /\ Has(R, x) /\ At(M, x).term = At(R, x).term
              /\ \/ At(M, x) = At(R, x)
                 \/ Has(L, x) /\ At(M, x) = At(L, x)
    BY <1>2, MergedPiece
  <2>2. \A x \in Nat : Has(M, x) /\ x > R.at => Has(R, x) /\ At(M, x) = At(R, x)
    <3> SUFFICES ASSUME NEW x \in Nat, Has(M, x), x > R.at
                 PROVE  Has(R, x) /\ At(M, x) = At(R, x)
      OBVIOUS
    <3>1. x \in 0..x
      OBVIOUS
    <3>2. Match(L, R)
      OBVIOUS
    <3> HIDE DEF m, M, L, R
    <3> QED BY <2>1, <3>1, <3>2 DEF Match
  <2>3. /\ Len(r.entries) \in Nat /\ b.at \in Nat
    BY DEF AppendRequest, Piece
  <2>4. /\ M \in Piece /\ L \in Piece /\ R \in Piece
        /\ M.at = 0 /\ L.at = 0 /\ R.at \in Nat /\ b.at \in Nat
        /\ TermAt(M, R.at) = TermAt(R, R.at)
    BY <2>3, MergedTerms
  <2>5. \A x \in Nat : x > 0 => /\ TermAt(M, x) = At(M, x).term
                               /\ TermAt(L, x) = At(L, x).term
    BY MergedTerms
  <2>6. \A x \in 0..R.at : TermAt(M, x) = TermAt(L, x)
    BY MergedTerms
  <2> SUFFICES ASSUME NEW x \in Nat, Has(M, x), Has(b, x),
                      At(M, x).term = At(b, x).term, NEW y \in 0..x
               PROVE  /\ Has(M, y) /\ Has(b, y) => At(M, y) = At(b, y)
                      /\ y >= M.at /\ y >= b.at => TermAt(M, y) = TermAt(b, y)
    BY DEF Match
  <2> HIDE DEF m, M, L, R
  <2>8. y \in Nat
    OBVIOUS
  <2>9. ASSUME NEW z \in 1..R.at, Has(b, z), At(L, z).term = At(b, z).term, y <= z
        PROVE  /\ Has(M, y) /\ Has(b, y) => At(M, y) = At(b, y)
               /\ y >= M.at /\ y >= b.at => TermAt(M, y) = TermAt(b, y)
    <3>1. z \in Nat /\ y \in 0..z /\ Has(L, z)
      BY <2>1, <2>4, <2>9
    <3>2. Match(L, b)
      BY DEF L
    <3>3. /\ Has(L, y) /\ Has(b, y) => At(L, y) = At(b, y)
          /\ y >= L.at /\ y >= b.at => TermAt(L, y) = TermAt(b, y)
      BY <2>9, <3>1, <3>2 DEF Match
    <3>4. ASSUME Has(M, y), Has(b, y) PROVE At(M, y) = At(b, y)
      <4>1. y \in 1..R.at
        BY <2>1, <2>4, <2>8, <2>9, <3>4
      <4> QED BY <2>1, <3>3, <3>4, <4>1
    <3>5. y \in 0..R.at
      BY <2>4, <2>8, <2>9
    <3> QED BY <2>4, <2>6, <2>8, <3>3, <3>4, <3>5
  <2>10. CASE x <= R.at
    <3>1. x \in 1..R.at
      BY <2>1, <2>4, <2>10
    <3>2. At(L, x).term = At(b, x).term
      BY <2>1, <3>1
    <3> QED BY <2>8, <2>9, <3>1, <3>2
  <2>11. CASE x > R.at
    <3>1. Has(R, x) /\ At(M, x) = At(R, x)
      BY <2>2, <2>11
    <3>2. Match(R, b)
      BY DEF R
    <3>3. \A z \in 0..x : /\ Has(R, z) /\ Has(b, z) => At(R, z) = At(b, z)
                          /\ z >= R.at /\ z >= b.at => TermAt(R, z) = TermAt(b, z)
      BY <3>1, <3>2 DEF Match
    <3>4. CASE y > R.at
      <4>1. Has(R, y)
        BY <2>4, <2>8, <3>1, <3>4, PieceHasBelow
      <4>2. Has(M, y)
        BY <2>1, <2>4, <2>8, <3>4
      <4>3. At(M, y) = At(R, y)
        BY <2>2, <2>8, <3>4, <4>2
      <4>4. TermAt(R, y) = At(R, y).term /\ TermAt(M, y) = At(M, y).term
        BY <2>4, <2>5, <2>8, <3>4 DEF TermAt
      <4> QED BY <2>4, <2>8, <3>3, <3>4, <4>1, <4>3, <4>4
    <3>5. CASE y <= R.at /\ b.at < R.at
      <4>1. R.at \in 1..R.at /\ R.at \in 0..x /\ R.at \in Nat
        BY <2>4, <2>11, <3>5
      <4>2. TermAt(R, R.at) = TermAt(b, R.at)
        BY <2>4, <3>3, <3>5, <4>1
      <4>3. Has(b, R.at)
        BY <3>5, <4>1, PieceHasBelow
      <4>4. TermAt(b, R.at) = At(b, R.at).term
        BY <2>4, <3>5 DEF TermAt
      <4>5. At(L, R.at).term = TermAt(M, R.at)
        BY <2>1, <2>4, <2>5, <4>1
      <4>6. At(L, R.at).term = At(b, R.at).term
        BY <2>4, <4>2, <4>4, <4>5
      <4> QED BY <2>9, <3>5, <4>1, <4>3, <4>6
    <3>6. CASE y <= R.at /\ b.at >= R.at
      <4>1. ~Has(b, y)
        BY <2>4, <2>8, <3>6, PieceEntry
      <4>2. ASSUME y >= b.at PROVE TermAt(M, y) = TermAt(b, y)
        <5>1. y = R.at /\ y = b.at /\ R.at \in 0..x
          BY <2>4, <2>8, <2>11, <3>6, <4>2
        <5>2. TermAt(R, R.at) = TermAt(b, R.at)
          BY <2>4, <3>3, <5>1
        <5> QED BY <2>4, <5>1, <5>2
      <4> QED BY <4>1, <4>2
    <3> QED BY <2>4, <2>8, <3>4, <3>5, <3>6
  <2> QED BY <2>4, <2>10, <2>11
<1> QED BY <1>1, <1>2

\* A log that its leader extends matches what it matched, if the term and the
\* place of the new entry are taken nowhere.
LEMMA AppendMatches ==
    ASSUME NEW lg \in Seq(Entry), NEW e \in Entry,
           NEW b \in Piece, Match(LogPiece(lg), b),
           \A x \in Nat : Has(b, x) /\ At(b, x).term = e.term => x <= Len(lg)
    PROVE  Match(LogPiece(Append(lg, e)), b)
<1> DEFINE m == Append(lg, e)
           M == LogPiece(m)
           L == LogPiece(lg)
<1>1. /\ m \in Seq(Entry) /\ Len(m) = Len(lg) + 1 /\ m[Len(lg) + 1] = e
      /\ \A i \in 1..Len(lg) : m[i] = lg[i]
  <2> HIDE DEF Entry
  <2> QED BY AppendProperties
<1>2. Len(lg) \in Nat
  OBVIOUS
<1>3. /\ M.at = 0 /\ L.at = 0 /\ b.at \in Nat /\ TermAt(M, 0) = 0 /\ TermAt(L, 0) = 0
      /\ \A x \in Nat : /\ Has(M, x) <=> x \in 1..Len(m)
                        /\ Has(L, x) <=> x \in 1..Len(lg)
                        /\ At(M, x) = m[x] /\ At(L, x) = lg[x]
  <2>1. b.at \in Nat
    BY DEF Piece
  <2> HIDE DEF m
  <2> QED BY <1>1, <2>1, LogPieceFacts
<1> SUFFICES ASSUME NEW x \in Nat, Has(M, x), Has(b, x),
                    At(M, x).term = At(b, x).term, NEW y \in 0..x
             PROVE  /\ Has(M, y) /\ Has(b, y) => At(M, y) = At(b, y)
                    /\ y >= M.at /\ y >= b.at => TermAt(M, y) = TermAt(b, y)
  BY DEF Match
<1> HIDE DEF m, M
<1>4. x # Len(lg) + 1
  BY <1>1, <1>2, <1>3
<1>5. x \in 1..Len(lg)
  BY <1>1, <1>2, <1>3, <1>4
<1>6. Has(L, x) /\ At(L, x).term = At(b, x).term
  BY <1>1, <1>3, <1>5
<1> HIDE DEF L
<1>7. Match(L, b)
  BY DEF L
<1>8. /\ Has(L, y) /\ Has(b, y) => At(L, y) = At(b, y)
      /\ y >= L.at /\ y >= b.at => TermAt(L, y) = TermAt(b, y)
  BY <1>6, <1>7 DEF Match
<1>9. CASE y = 0
  <2>1. ~Has(M, y)
    BY <1>3, <1>9
  <2> QED BY <1>3, <1>8, <1>9, <2>1
<1>10. CASE y # 0
  <2>1. y \in 1..Len(lg)
    BY <1>5, <1>10
  <2>2. Has(L, y) /\ At(M, y) = At(L, y)
    BY <1>1, <1>3, <2>1
  <2>3. TermAt(M, y) = TermAt(L, y)
    BY <1>3, <1>10, <2>2 DEF TermAt
  <2> QED BY <1>3, <1>8, <2>2, <2>3
<1> QED BY <1>9, <1>10

\* What _send_append_entries puts in a request is cut out of its sender's log.
LEMMA SentSlices ==
    ASSUME TypeOK, TypeOK', NEW n \in Node, NEW reach \in SUBSET Peers(n),
           NEW origin \in Cmd \cup {Nil}, SendAppendEntries(n, reach, origin),
           NEW r \in appendReqs'
    PROVE  \/ r \in appendReqs
           \/ /\ SliceOf(RequestPiece(r), LogPiece(log[n]))
              /\ r.prevIndex = -1 => r.prevTerm = 0
              /\ r.src = n /\ r.dst \in reach /\ r.term = currentTerm[n]
              /\ r.commit = commitIndex[n]
<1> DEFINE lg == log[n]
<1>1. SUFFICES ASSUME r \notin appendReqs
               PROVE  /\ SliceOf(RequestPiece(r), LogPiece(lg))
                      /\ r.prevIndex = -1 => r.prevTerm = 0
                      /\ r.src = n /\ r.dst \in reach /\ r.term = currentTerm[n]
                      /\ r.commit = commitIndex[n]
  OBVIOUS
<1>2. PICK p \in reach :
        r = [src |-> n, dst |-> p, term |-> currentTerm[n],
             prevIndex |-> nextIndex[n][p] - 1,
             prevTerm |-> IF nextIndex[n][p] - 1 >= 0 /\ nextIndex[n][p] - 1 < Len(lg)
                          THEN lg[nextIndex[n][p] - 1 + 1].term ELSE 0,
             entries |-> SubSeq(lg, nextIndex[n][p] + 1, Len(lg)),
             commit |-> commitIndex[n], origin |-> origin, live |-> TRUE]
  BY <1>1 DEF SendAppendEntries
<1> DEFINE at == nextIndex[n][p]
<1>3. /\ at \in Nat /\ lg \in Seq(Entry) /\ Len(lg) \in Nat
      /\ r \in AppendRequest
  BY DEF TypeOK, Peers
<1>4. /\ r.prevIndex = at - 1 /\ r.entries = SubSeq(lg, at + 1, Len(lg))
      /\ r.prevTerm = IF at - 1 >= 0 /\ at - 1 < Len(lg) THEN lg[at].term ELSE 0
      /\ r.src = n /\ r.dst \in reach /\ r.term = currentTerm[n]
      /\ r.commit = commitIndex[n]
  <2>1. at - 1 + 1 = at
    BY <1>3
  <2> HIDE DEF lg, at
  <2>2. /\ r.prevIndex = at - 1 /\ r.entries = SubSeq(lg, at + 1, Len(lg))
        /\ r.prevTerm = IF at - 1 >= 0 /\ at - 1 < Len(lg) THEN lg[at - 1 + 1].term ELSE 0
        /\ r.src = n /\ r.dst = p /\ r.term = currentTerm[n]
        /\ r.commit = commitIndex[n]
    BY <1>2 DEF at
  <2> QED BY <2>1, <2>2
<1> HIDE DEF lg, at
<1>5. /\ Len(r.entries) = IF at + 1 <= Len(lg) THEN Len(lg) - at ELSE 0
      /\ \A i \in 1..(Len(lg) - at) : r.entries[i] = lg[at + i]
  <2>1. \A i \in (at + 1)..Len(lg) : lg[i] \in Entry
    BY <1>3, ElementOfSeq
  <2> HIDE DEF Entry
  <2>2. /\ Len(r.entries) = IF at + 1 <= Len(lg) THEN Len(lg) - (at + 1) + 1 ELSE 0
        /\ \A i \in 1..(Len(lg) - (at + 1) + 1) : r.entries[i] = lg[(at + 1) + i - 1]
    BY <1>3, <1>4, <2>1, SubSeqProperties
  <2> QED BY <1>3, <2>2
<1>6. /\ RequestPiece(r).at = at /\ TermAt(RequestPiece(r), at) = r.prevTerm
      /\ \A x \in Nat : Has(RequestPiece(r), x) <=> x - at \in 1..Len(r.entries)
      /\ \A x \in Nat : At(RequestPiece(r), x) = r.entries[x - at]
  <2>1. r.prevIndex + 1 = at /\ \A x \in Nat : x - r.prevIndex - 1 = x - at
    BY <1>3, <1>4
  <2> QED BY <1>3, <2>1, RequestPieceFacts
<1>7. SliceOf(RequestPiece(r), LogPiece(lg))
  <2> SUFFICES ASSUME NEW x \in Nat, Has(RequestPiece(r), x)
               PROVE  /\ Has(LogPiece(lg), x)
                      /\ At(RequestPiece(r), x) = At(LogPiece(lg), x)
                      /\ RequestPiece(r).at >= LogPiece(lg).at
                      /\ TermAt(RequestPiece(r), RequestPiece(r).at)
                            = TermAt(LogPiece(lg), RequestPiece(r).at)
    BY DEF SliceOf
  <2>1. x - at \in 1..(Len(lg) - at) /\ at < Len(lg) /\ x \in 1..Len(lg)
    BY <1>3, <1>5, <1>6
  <2>2. r.entries[x - at] = lg[x]
    <3>1. at + (x - at) = x
      BY <1>3
    <3> QED BY <1>5, <2>1, <3>1
  <2>3. /\ Has(LogPiece(lg), x) /\ At(LogPiece(lg), x) = lg[x] /\ LogPiece(lg).at = 0
        /\ TermAt(LogPiece(lg), 0) = 0 /\ At(LogPiece(lg), at) = lg[at]
    BY <1>3, <2>1, LogPieceFacts
  <2>4. TermAt(LogPiece(lg), at) = r.prevTerm
    <3>1. CASE at = 0
      BY <1>3, <1>4, <2>3, <3>1
    <3>2. CASE at # 0
      BY <1>3, <1>4, <2>1, <2>3, <3>2 DEF TermAt
    <3> QED BY <3>1, <3>2
  <2> QED BY SMTT(30), <1>3, <1>6, <2>2, <2>3, <2>4
<1>8. r.prevIndex = -1 => r.prevTerm = 0
  BY <1>3, <1>4
<1> QED BY <1>4, <1>7, <1>8 DEF lg

-----------------------------------------------------------------------------
\* What a step does to logs and requests

\* A request that was there before, be it abandoned since.
FromBefore(r) == \E s \in appendReqs : r = s \/ r = Abandoned(s)

\* No log changes and nothing new is sent.
Quiet ==
    /\ UNCHANGED <<log, applied, issued>>
    /\ \A r \in appendReqs' : FromBefore(r)

Sends(n) ==
    /\ \E reach \in SUBSET Peers(n), origin \in Cmd \cup {Nil} :
          SendAppendEntries(n, reach, origin)
    /\ UNCHANGED <<currentTerm, state, log, commitIndex, applied, issued, elected>>

\* Cancelling the heartbeat task only marks requests that were there as abandoned.
LEMMA CancelledFromBefore ==
    ASSUME NEW n, NEW reqs \in SUBSET appendReqs, NEW r \in Cancelled(reqs, n)
    PROVE  FromBefore(r)
BY DEF Cancelled, FromBefore

\* A request nobody waits for any more carries what it carried.
LEMMA AbandonedPiece ==
    ASSUME NEW r \in AppendRequest
    PROVE  /\ RequestPiece(Abandoned(r)) = RequestPiece(r)
           /\ Abandoned(r).src = r.src /\ Abandoned(r).dst = r.dst
           /\ Abandoned(r).term = r.term /\ Abandoned(r).prevIndex = r.prevIndex
           /\ Abandoned(r).prevTerm = r.prevTerm
           /\ Abandoned(r).entries = r.entries /\ Abandoned(r).commit = r.commit
BY DEF Abandoned, AppendRequest, RequestPiece

\* The handlers by what they do to logs, requests and applied entries: most do nothing
\* to them.
LEMMA StepKinds ==
    ASSUME TypeOK, [Next]_vars
    PROVE  \/ Quiet
           \/ \E n \in Node : Sends(n)
           \/ \E n \in Node, c \in Cmd : AppendEntry(n, c)
           \/ \E r \in appendReqs : HandleAppendEntries(r)
           \/ \E r \in appendReplies : HandleAppendSuccess(r)
           \/ \E n \in Node : Restart(n)
<1> USE DEF FromBefore
<1>1. CASE \E n \in Node : \/ ElectionTimeout(n) \/ ElectionTimerLapses(n)
                           \/ StartElection(n) \/ RequestVotes(n)
                           \/ BecomeLeader(n) \/ ElectionFails(n)
  BY <1>1 DEF ElectionTimeout, ElectionTimerLapses, StartElection, RequestVotes,
     BecomeLeader, ElectionFails, Quiet, logVars, appendNet, historyVars
<1>2. CASE \E n \in Node : Heartbeat(n)
  BY <1>2 DEF Heartbeat, Sends, nodeVars, logVars, historyVars
<1>3. CASE \E n \in Node, c \in Cmd : SendAppendEntriesToAll(n, c)
  BY <1>3 DEF SendAppendEntriesToAll, Sends, nodeVars, logVars, historyVars
<1>4. CASE \E r \in voteReqs : HandleRequestVote(r)
  <2>1. PICK r \in voteReqs : HandleRequestVote(r)
    BY <1>4
  <2>2. appendReqs' = appendReqs \/ appendReqs' = Cancelled(appendReqs, r.dst)
    BY <2>1 DEF HandleRequestVote, BecomeFollower, appendNet
  <2>3. UNCHANGED <<log, applied, issued>>
    BY <2>1 DEF HandleRequestVote, logVars
  <2> QED BY <2>2, <2>3, CancelledFromBefore DEF Quiet
<1>5. CASE \E r \in voteReplies : HandleVoteReply(r)
  <2>1. PICK r \in voteReplies : HandleVoteReply(r)
    BY <1>5
  <2>2. appendReqs' = appendReqs \/ appendReqs' = Cancelled(appendReqs, r.src)
    BY <2>1 DEF HandleVoteReply, BecomeFollower, appendNet
  <2>3. UNCHANGED <<log, applied, issued>>
    BY <2>1 DEF HandleVoteReply, logVars, historyVars
  <2> QED BY <2>2, <2>3, CancelledFromBefore DEF Quiet
<1>6. CASE \E r \in appendReplies : HandleAppendFailure(r)
  <2>1. PICK r \in appendReplies : HandleAppendFailure(r)
    BY <1>6
  <2>2. appendReqs' = appendReqs \/ appendReqs' = Cancelled(appendReqs, r.src)
    BY <2>1 DEF HandleAppendFailure, BecomeFollower
  <2>3. UNCHANGED <<log, applied, issued>>
    BY <2>1 DEF HandleAppendFailure, logVars, historyVars
  <2> QED BY <2>2, <2>3, CancelledFromBefore DEF Quiet
<1>7. CASE \/ \E r \in voteReqs : RequestVoteTimeout(r)
           \/ \E r \in voteReplies : VoteReplyLost(r)
           \/ \E r \in appendReplies : AppendReplyLost(r)
           \/ LoseRequest \/ UNCHANGED vars
  BY <1>7 DEF RequestVoteTimeout, VoteReplyLost, AppendReplyLost, LoseRequest, vars,
     Quiet, logVars, appendNet, historyVars
<1>8. CASE \E r \in appendReqs : AppendEntriesTimeout(r)
  BY <1>8 DEF AppendEntriesTimeout, Quiet, logVars, historyVars
<1> QED BY <1>1, <1>2, <1>3, <1>4, <1>5, <1>6, <1>7, <1>8 DEF Next

\* Terms grow, leaders and candidates of a term were that already or become it
\* in the way the code provides, unless somebody restarts.
LEMMA RoleEffect ==
    ASSUME TypeOK, TypeOK', [Next]_vars, \A n \in Node : ~Restart(n)
    PROVE  /\ \A m \in Node :
                 /\ currentTerm'[m] >= currentTerm[m]
                 /\ state'[m] = "leader" =>
                       \/ state[m] = "leader" /\ currentTerm'[m] = currentTerm[m]
                       \/ BecomeLeader(m)
                 /\ state'[m] = "candidate" =>
                       \/ state[m] = "candidate" /\ currentTerm'[m] = currentTerm[m]
                       \/ currentTerm'[m] > currentTerm[m]
           /\ elected' = elected \/ \E m \in Node : BecomeLeader(m)
<1>0. /\ currentTerm \in [Node -> Nat]
      /\ state \in [Node -> {"follower", "candidate", "leader"}]
  BY DEF TypeOK
<1>1. CASE \E n \in Node : ElectionTimeout(n) \/ StartElection(n)
  <2>1. PICK n \in Node : Campaign(n) /\ elected' = elected
    BY <1>1 DEF ElectionTimeout, StartElection
  <2> QED BY <1>0, <2>1 DEF Campaign
<1>2. CASE \E n \in Node : BecomeLeader(n)
  <2>1. PICK n \in Node : BecomeLeader(n)
    BY <1>2
  <2>2. state' = [state EXCEPT ![n] = "leader"] /\ currentTerm' = currentTerm
    BY <2>1 DEF BecomeLeader
  <2> QED BY <1>0, <2>1, <2>2
<1>3. CASE \E n \in Node : \/ ElectionTimerLapses(n) \/ RequestVotes(n)
                           \/ ElectionFails(n)
  BY <1>0, <1>3 DEF ElectionTimerLapses, RequestVotes, ElectionFails, nodeVars, historyVars
<1>4. CASE \E r \in voteReqs : HandleRequestVote(r)
  <2>1. PICK r \in voteReqs : HandleRequestVote(r)
    BY <1>4
  <2>2. /\ currentTerm' = [currentTerm EXCEPT ![r.dst] = TermAfter(r.dst, r)]
        /\ elected' = elected /\ r.dst \in Node /\ r.term \in Nat
        /\ state' = IF r.term > currentTerm[r.dst]
                    THEN [state EXCEPT ![r.dst] = "follower"] ELSE state
    BY <2>1 DEF HandleRequestVote, BecomeFollower, TypeOK, VoteRequest
  <2> QED BY <1>0, <2>2 DEF TermAfter, Larger
<1>5. CASE \E r \in voteReplies : HandleVoteReply(r)
  <2>1. PICK r \in voteReplies : HandleVoteReply(r)
    BY <1>5
  <2>2. /\ elected' = elected /\ r.src \in Node /\ r.term \in Nat
        /\ IF r.term > currentTerm[r.src]
           THEN /\ state' = [state EXCEPT ![r.src] = "follower"]
                /\ currentTerm' = [currentTerm EXCEPT ![r.src] = r.term]
           ELSE UNCHANGED <<state, currentTerm>>
    BY <2>1 DEF HandleVoteReply, BecomeFollower, TypeOK, VoteReply, nodeVars, historyVars
  <2> QED BY <1>0, <2>2
<1>6. CASE \E r \in appendReqs : HandleAppendEntries(r)
  <2>1. PICK r \in appendReqs : HandleAppendEntries(r)
    BY <1>6
  <2>2. /\ currentTerm' = [currentTerm EXCEPT ![r.dst] = TermAfter(r.dst, r)]
        /\ elected' = elected /\ r.dst \in Node /\ r.term \in Nat
        /\ state' = IF StepsDown(r.dst, r)
                    THEN [state EXCEPT ![r.dst] = "follower"] ELSE state
    BY <2>1 DEF HandleAppendEntries, BecomeFollower, TypeOK, AppendRequest, historyVars
  <2> QED BY <1>0, <2>2 DEF TermAfter, Larger, StepsDown
<1>7. CASE \E r \in appendReplies : HandleAppendFailure(r)
  <2>1. PICK r \in appendReplies : HandleAppendFailure(r)
    BY <1>7
  <2>2. /\ elected' = elected /\ r.src \in Node /\ r.term \in Nat
        /\ IF r.term > currentTerm[r.src]
           THEN /\ state' = [state EXCEPT ![r.src] = "follower"]
                /\ currentTerm' = [currentTerm EXCEPT ![r.src] = r.term]
           ELSE UNCHANGED <<state, currentTerm>>
    BY <2>1 DEF HandleAppendFailure, BecomeFollower, TypeOK, AppendReply, nodeVars, historyVars
  <2> QED BY <1>0, <2>2
<1>8. CASE \E r \in appendReplies : HandleAppendSuccess(r)
  BY <1>0, <1>8 DEF HandleAppendSuccess, nodeVars, historyVars
<1>9. CASE \/ UNCHANGED vars
           \/ \E n \in Node : Heartbeat(n)
           \/ \E n \in Node, c \in Cmd :
                 AppendEntry(n, c) \/ SendAppendEntriesToAll(n, c)
           \/ \E r \in voteReqs : RequestVoteTimeout(r)
           \/ \E r \in voteReplies : VoteReplyLost(r)
           \/ \E r \in appendReqs : AppendEntriesTimeout(r)
           \/ \E r \in appendReplies : AppendReplyLost(r)
           \/ LoseRequest
  <2>1. UNCHANGED <<currentTerm, state, elected>>
    BY <1>9, OtherEffect
  <2> QED BY <1>0, <2>1
<1> QED BY <1>1, <1>2, <1>3, <1>4, <1>5, <1>6, <1>7, <1>8, <1>9 DEF Next

-----------------------------------------------------------------------------
(***************************************************************************)
(* Terms along a log.  No assumption: votes may be cast twice and nodes    *)
(* may restart, for a leader writes its own term only, and a node that     *)
(* takes over entries takes over the term of the request first.            *)
(***************************************************************************)

\* The terms of a piece do not decrease, from the one before it up to t.
Ordered(p, t) == \A x \in Nat : Has(p, x) =>
    /\ At(p, x).term <= t
    /\ \A y \in p.at..x : TermAt(p, y) <= At(p, x).term

\* A request at the start of a log names no term before it.
FirstRequests == \A r \in appendReqs : r.prevIndex = -1 => r.prevTerm = 0

TermsInv ==
    /\ FirstRequests
    /\ \A n \in Node : Ordered(LogPiece(log[n]), currentTerm[n])
    /\ \A r \in appendReqs : Ordered(RequestPiece(r), r.term)

\* Entries not beyond one term are not beyond a later one (current_term rises).
LEMMA OrderedGrows ==
    ASSUME NEW p \in Piece, NEW t \in Nat, NEW u \in Nat, t <= u, Ordered(p, t)
    PROVE  Ordered(p, u)
<1>1. \A x \in Nat : Has(p, x) => At(p, x).term \in Nat
  BY PieceEntry
<1> QED BY <1>1 DEF Ordered

\* _send_append_entries: the entries cut out of an ordered log are ordered.
LEMMA SliceOrdered ==
    ASSUME NEW p \in Piece, NEW q \in Piece, NEW t, SliceOf(q, p), Ordered(p, t)
    PROVE  Ordered(q, t)
<1> SUFFICES ASSUME NEW x \in Nat, Has(q, x)
             PROVE  /\ At(q, x).term <= t
                    /\ \A y \in q.at..x : TermAt(q, y) <= At(q, x).term
  BY DEF Ordered
<1>1. /\ Has(p, x) /\ At(q, x) = At(p, x)
      /\ q.at >= p.at /\ TermAt(q, q.at) = TermAt(p, q.at)
  BY DEF SliceOf
<1>2. p.at \in Nat /\ q.at \in Nat
  BY DEF Piece
<1>3. ASSUME NEW y \in q.at..x PROVE TermAt(q, y) <= At(q, x).term
  <2>1. y \in p.at..x /\ y \in Nat
    BY <1>1, <1>2
  <2>2. TermAt(p, y) <= At(p, x).term
    BY <1>1, <2>1 DEF Ordered
  <2>3. CASE y = q.at
    BY <1>1, <2>2, <2>3
  <2>4. CASE y # q.at
    <3>1. Has(q, y)
      BY <1>2, <2>4, PieceHasBelow
    <3>2. At(q, y) = At(p, y) /\ Has(p, y)
      BY <2>1, <3>1 DEF SliceOf
    <3>3. y # p.at
      BY <1>2, <2>1, <3>2, PieceEntry
    <3> QED BY <1>1, <2>2, <2>4, <3>2, <3>3 DEF TermAt
  <2> QED BY <2>3, <2>4
<1> QED BY <1>1, <1>3 DEF Ordered

\* _handle_append_entries: the log is ordered after the append loop, if log and
\* request were before.
LEMMA MergeOrdered ==
    ASSUME NEW lg \in Seq(Entry), NEW r \in AppendRequest, PrevMatches(r, lg),
           r.prevIndex = -1 => r.prevTerm = 0,
           NEW t \in Nat, NEW u \in Nat, t <= u, r.term <= u,
           Ordered(LogPiece(lg), t), Ordered(RequestPiece(r), r.term)
    PROVE  Ordered(LogPiece(MergeEntries(lg, r.prevIndex, r.entries)), u)
<1> DEFINE m == MergeEntries(lg, r.prevIndex, r.entries)
           M == LogPiece(m)
           L == LogPiece(lg)
           R == RequestPiece(r)
<1>1. CASE m = lg
  BY <1>1, OrderedGrows, LogPieceFacts
<1>2. CASE m # lg
  <2>1. /\ \A x \in Nat : Has(M, x) <=> x \in 1..(R.at + Len(r.entries))
        /\ \A x \in 1..R.at : Has(L, x) /\ At(M, x) = At(L, x)
        /\ \A x \in Nat : Has(M, x) /\ x > R.at =>
              Has(R, x) /\ At(M, x).term = At(R, x).term
    BY <1>2, MergedPiece
  <2>2. /\ M \in Piece /\ L \in Piece /\ R \in Piece
        /\ M.at = 0 /\ L.at = 0 /\ R.at \in Nat
        /\ TermAt(M, R.at) = TermAt(R, R.at)
        /\ \A x \in Nat : x > 0 => TermAt(M, x) = At(M, x).term
        /\ \A x \in 0..R.at : TermAt(M, x) = TermAt(L, x)
    BY MergedTerms
  <2>3. Ordered(L, t) /\ Ordered(R, r.term) /\ r.term \in Nat /\ Len(r.entries) \in Nat
    BY DEF AppendRequest
  <2> HIDE DEF M, L, R
  <2> SUFFICES ASSUME NEW x \in Nat, Has(M, x)
               PROVE  /\ At(M, x).term <= u
                      /\ \A y \in M.at..x : TermAt(M, y) <= At(M, x).term
    BY DEF Ordered, M
  <2>4. CASE x <= R.at
    <3>1. Has(L, x) /\ At(M, x) = At(L, x) /\ At(L, x).term \in Nat
      BY <2>1, <2>2, <2>4, PieceEntry
    <3>2. At(L, x).term <= t /\ \A y \in L.at..x : TermAt(L, y) <= At(L, x).term
      BY <2>3, <3>1 DEF Ordered
    <3>3. \A y \in M.at..x : TermAt(M, y) <= At(M, x).term
      BY <2>2, <2>4, <3>1, <3>2
    <3> QED BY <3>1, <3>2, <3>3
  <2>5. CASE x > R.at
    <3>1. Has(R, x) /\ At(M, x).term = At(R, x).term /\ At(R, x).term \in Nat
      BY <2>1, <2>2, <2>5, PieceEntry
    <3>2. At(R, x).term <= r.term /\ \A y \in R.at..x : TermAt(R, y) <= At(R, x).term
      BY <2>3, <3>1 DEF Ordered
    <3>3. ASSUME NEW y \in M.at..x, y > R.at PROVE TermAt(M, y) <= At(M, x).term
      <4>1. y \in Nat /\ y \in R.at..x
        BY <2>2, <3>3
      <4>2. Has(M, y)
        BY <2>1, <2>2, <2>3, <3>3, <4>1
      <4>3. At(M, y).term = At(R, y).term
        BY <2>1, <3>3, <4>1, <4>2
      <4>4. TermAt(M, y) = At(M, y).term /\ TermAt(R, y) = At(R, y).term
        BY <2>2, <3>3, <4>1 DEF TermAt
      <4> QED BY <3>1, <3>2, <4>1, <4>3, <4>4
    <3>4. ASSUME NEW y \in M.at..x, y <= R.at PROVE TermAt(M, y) <= At(M, x).term
      <4>1. TermAt(R, R.at) <= At(R, x).term
        BY <2>2, <2>5, <3>2
      <4>2. CASE y = R.at
        BY <2>2, <3>1, <4>1, <4>2
      <4>3. CASE y < R.at
        <5>1. R.at \in 1..R.at /\ R.at \in Nat /\ y \in L.at..R.at /\ R.at \in 0..R.at
          BY <2>2, <4>3
        <5>2. Has(L, R.at) /\ At(M, R.at) = At(L, R.at)
          BY <2>1, <5>1
        <5>3. TermAt(L, y) <= At(L, R.at).term
          BY <2>3, <5>1, <5>2 DEF Ordered
        <5>4. TermAt(M, y) = TermAt(L, y) /\ TermAt(M, R.at) = At(L, R.at).term
          BY <2>2, <5>1, <5>2
        <5>5. At(L, R.at).term \in Nat
          BY <2>2, <5>1, <5>2, PieceEntry
        <5>6. TermAt(L, y) \in Nat
          <6>1. CASE y = 0
            BY <2>2, <6>1 DEF TermAt, Piece
          <6>2. CASE y # 0
            <7>1. y \in 1..R.at /\ y \in Nat
              BY <2>2, <3>4, <6>2
            <7>2. Has(L, y)
              BY <2>1, <7>1
            <7> QED BY <2>2, <6>2, <7>1, <7>2, PieceEntry DEF TermAt
          <6> QED BY <6>1, <6>2
        <5> QED BY <2>2, <3>1, <4>1, <5>3, <5>4, <5>5, <5>6
      <4>4. y \in Nat
        BY <2>2
      <4>5. y = R.at \/ y < R.at
        BY <2>2, <3>4, <4>4
      <4> QED BY <4>2, <4>3, <4>5
    <3>5. ASSUME NEW y \in M.at..x PROVE TermAt(M, y) <= At(M, x).term
      <4>1. y > R.at \/ y <= R.at
        BY <2>2
      <4> QED BY <3>3, <3>4, <4>1
    <3>6. At(M, x).term <= u
      BY <2>3, <3>1, <3>2
    <3> QED BY <3>5, <3>6
  <2> QED BY <2>2, <2>4, <2>5
<1> QED BY <1>1, <1>2

\* append_entry: the new entry has the term of the leader, which is not exceeded.
LEMMA AppendOrdered ==
    ASSUME NEW lg \in Seq(Entry), NEW e \in Entry, Ordered(LogPiece(lg), e.term)
    PROVE  Ordered(LogPiece(Append(lg, e)), e.term)
<1> DEFINE m == Append(lg, e)
           M == LogPiece(m)
           L == LogPiece(lg)
<1>1. /\ m \in Seq(Entry) /\ Len(m) = Len(lg) + 1 /\ m[Len(lg) + 1] = e
      /\ \A i \in 1..Len(lg) : m[i] = lg[i]
  <2> HIDE DEF Entry
  <2> QED BY AppendProperties
<1>2. Len(lg) \in Nat /\ e.term \in Nat
  BY DEF Entry
<1>3. /\ M.at = 0 /\ L.at = 0 /\ L \in Piece /\ TermAt(M, 0) = 0 /\ TermAt(L, 0) = 0
      /\ \A x \in Nat : /\ Has(M, x) <=> x \in 1..Len(m)
                        /\ Has(L, x) <=> x \in 1..Len(lg)
                        /\ At(M, x) = m[x] /\ At(L, x) = lg[x]
  <2> HIDE DEF m
  <2> QED BY <1>1, LogPieceFacts
<1> HIDE DEF m, M
<1> SUFFICES ASSUME NEW x \in Nat, Has(M, x)
             PROVE  /\ At(M, x).term <= e.term
                    /\ \A y \in M.at..x : TermAt(M, y) <= At(M, x).term
  BY DEF Ordered, M, m
<1> HIDE DEF L
<1>4. \A z \in Nat : Has(L, z) =>
         At(L, z).term <= e.term /\ \A y \in L.at..z : TermAt(L, y) <= At(L, z).term
  BY DEF Ordered, L
<1>5. \A y \in 0..Len(lg) : /\ TermAt(M, y) = TermAt(L, y)
                            /\ TermAt(L, y) <= e.term
  <2> SUFFICES ASSUME NEW y \in 0..Len(lg)
               PROVE  TermAt(M, y) = TermAt(L, y) /\ TermAt(L, y) <= e.term
    OBVIOUS
  <2>1. CASE y = 0
    BY <1>2, <1>3, <2>1
  <2>2. CASE y # 0
    <3>1. y \in 1..Len(lg) /\ y \in Nat
      BY <1>2, <2>2
    <3>2. Has(L, y) /\ At(L, y) = At(M, y)
      BY <1>1, <1>3, <3>1
    <3> QED BY <1>3, <1>4, <2>2, <3>1, <3>2 DEF TermAt
  <2> QED BY <2>1, <2>2
<1>6. CASE x = Len(lg) + 1
  <2>1. At(M, x) = e
    BY <1>1, <1>3, <1>6
  <2>2. TermAt(M, x) = e.term
    BY <1>2, <1>3, <1>6, <2>1 DEF TermAt
  <2>3. \A y \in M.at..x : y \in 0..Len(lg) \/ y = x
    BY <1>2, <1>3, <1>6
  <2> QED BY <1>2, <1>5, <2>1, <2>2, <2>3
<1>7. CASE x # Len(lg) + 1
  <2>1. x \in 1..Len(lg)
    BY <1>1, <1>2, <1>3, <1>7
  <2>2. Has(L, x) /\ At(M, x) = At(L, x)
    BY <1>1, <1>3, <2>1
  <2>3. \A y \in M.at..x : y \in 0..Len(lg) /\ y \in L.at..x
    BY <1>2, <1>3, <2>1
  <2> QED BY <1>4, <1>5, <2>2, <2>3
<1> QED BY <1>6, <1>7

\* Every step keeps the terms in order.
LEMMA TermsStep ==
    ASSUME TypeOK, TypeOK', TermsInv, [Next]_vars
    PROVE  TermsInv'
<1>0. /\ \A n \in Node : /\ log[n] \in Seq(Entry) /\ LogPiece(log[n]) \in Piece
                         /\ log'[n] \in Seq(Entry) /\ LogPiece(log'[n]) \in Piece
                         /\ currentTerm[n] \in Nat /\ currentTerm'[n] \in Nat
      /\ \A r \in appendReqs : r \in AppendRequest /\ RequestPiece(r) \in Piece
      /\ \A r \in appendReqs' : r \in AppendRequest /\ RequestPiece(r) \in Piece
  BY LogPieceFacts, RequestPieceFacts DEF TypeOK
<1>1. ASSUME NEW r, FromBefore(r)
      PROVE  /\ r.prevIndex = -1 => r.prevTerm = 0
             /\ Ordered(RequestPiece(r), r.term)
  BY <1>0, <1>1, AbandonedPiece DEF FromBefore, TermsInv, FirstRequests
<1>2. ASSUME \A n \in Node : ~Restart(n)
      PROVE  \A n \in Node : currentTerm'[n] >= currentTerm[n]
  BY <1>2, RoleEffect
<1>3. ASSUME log' = log, \A n \in Node : currentTerm'[n] >= currentTerm[n]
      PROVE  \A n \in Node : Ordered(LogPiece(log'[n]), currentTerm'[n])
  BY <1>0, <1>3, OrderedGrows DEF TermsInv
<1>4. ASSUME NEW n \in Node, Restart(n) PROVE TermsInv'
  <2>1. /\ log' = [log EXCEPT ![n] = <<>>]
        /\ currentTerm' = [currentTerm EXCEPT ![n] = 0]
        /\ \A r \in appendReqs' : FromBefore(r)
    BY <1>4 DEF Restart, FromBefore
  <2>3. Ordered(LogPiece(<<>>), 0)
    BY EmptyLog DEF Ordered
  <2>4. \A m \in Node : Ordered(LogPiece(log'[m]), currentTerm'[m])
    BY <2>1, <2>3 DEF TermsInv, TypeOK
  <2> QED BY <1>1, <2>1, <2>4 DEF TermsInv, FirstRequests
<1>5. CASE Quiet /\ \A n \in Node : ~Restart(n)
  <2>1. \A n \in Node : Ordered(LogPiece(log'[n]), currentTerm'[n])
    BY <1>2, <1>3, <1>5 DEF Quiet
  <2> QED BY <1>1, <1>5, <2>1 DEF Quiet, TermsInv, FirstRequests
<1>6. ASSUME NEW n \in Node, Sends(n) PROVE TermsInv'
  <2>1. /\ log' = log /\ currentTerm' = currentTerm
    BY <1>6 DEF Sends
  <2>2. \A m \in Node : Ordered(LogPiece(log'[m]), currentTerm'[m])
    BY <2>1 DEF TermsInv
  <2>3. PICK reach \in SUBSET Peers(n), origin \in Cmd \cup {Nil} :
          SendAppendEntries(n, reach, origin)
    BY <1>6 DEF Sends
  <2>4. ASSUME NEW r \in appendReqs'
        PROVE  /\ r.prevIndex = -1 => r.prevTerm = 0
               /\ Ordered(RequestPiece(r), r.term)
    <3>1. CASE r \in appendReqs
      BY <3>1 DEF TermsInv, FirstRequests
    <3>2. CASE r \notin appendReqs
      <4>1. /\ SliceOf(RequestPiece(r), LogPiece(log[n]))
            /\ r.prevIndex = -1 => r.prevTerm = 0
            /\ r.term = currentTerm[n]
        BY <2>3, <3>2, SentSlices
      <4>2. Ordered(LogPiece(log[n]), currentTerm[n])
        BY DEF TermsInv
      <4> QED BY <1>0, <4>1, <4>2, SliceOrdered
    <3> QED BY <3>1, <3>2
  <2> QED BY <2>2, <2>4 DEF TermsInv, FirstRequests
<1>7. ASSUME NEW n \in Node, NEW c \in Cmd, AppendEntry(n, c) PROVE TermsInv'
  <2> DEFINE e == [term |-> currentTerm[n], cmd |-> c]
  <2>1. /\ log' = [log EXCEPT ![n] = Append(@, e)]
        /\ UNCHANGED <<currentTerm, appendReqs>>
    BY <1>7 DEF AppendEntry, nodeVars, appendNet
  <2>2. e \in Entry /\ e.term = currentTerm[n]
    BY <1>0 DEF Entry
  <2>3. Ordered(LogPiece(Append(log[n], e)), currentTerm[n])
    <3>1. Ordered(LogPiece(log[n]), e.term)
      BY <2>2 DEF TermsInv
    <3> HIDE DEF e
    <3> QED BY <1>0, <2>2, <3>1, AppendOrdered
  <2> HIDE DEF e
  <2>4. \A m \in Node : Ordered(LogPiece(log'[m]), currentTerm'[m])
    BY <2>1, <2>3 DEF TermsInv, TypeOK
  <2> QED BY <2>1, <2>4 DEF TermsInv, FirstRequests
<1>8. ASSUME NEW r \in appendReqs, HandleAppendEntries(r) PROVE TermsInv'
  <2> DEFINE n == r.dst
             m == MergeEntries(log[n], r.prevIndex, r.entries)
  <2>1. /\ log' = [log EXCEPT ![n] = IF PrevMatches(r, log[n]) THEN m ELSE log[n]]
        /\ currentTerm' = [currentTerm EXCEPT ![n] = TermAfter(n, r)]
    BY <1>8 DEF HandleAppendEntries
  <2>2. \A s \in appendReqs' : FromBefore(s)
    <3>1. appendReqs' = appendReqs \ {r} \/ appendReqs' = Cancelled(appendReqs \ {r}, n)
      BY <1>8 DEF HandleAppendEntries, BecomeFollower
    <3>2. CASE appendReqs' = appendReqs \ {r}
      BY <3>2 DEF FromBefore
    <3>3. CASE appendReqs' = Cancelled(appendReqs \ {r}, n)
      BY <3>3, CancelledFromBefore
    <3> QED BY <3>1, <3>2, <3>3
  <2>3. /\ n \in Node /\ r.term \in Nat /\ r \in AppendRequest
        /\ r.prevIndex = -1 => r.prevTerm = 0
    BY <1>0 DEF AppendRequest, TermsInv, FirstRequests
  <2>4. /\ TermAfter(n, r) \in Nat /\ currentTerm[n] <= TermAfter(n, r)
        /\ r.term <= TermAfter(n, r)
    BY <1>0, <2>3 DEF TermAfter, Larger
  <2>5. PrevMatches(r, log[n]) => Ordered(LogPiece(m), TermAfter(n, r))
    BY <1>0, <2>3, <2>4, MergeOrdered DEF TermsInv
  <2>6. Ordered(LogPiece(log[n]), TermAfter(n, r))
    BY <1>0, <2>3, <2>4, OrderedGrows DEF TermsInv
  <2> HIDE DEF m, n
  <2>7. /\ log'[n] = IF PrevMatches(r, log[n]) THEN m ELSE log[n]
        /\ currentTerm'[n] = TermAfter(n, r)
        /\ \A k \in Node : k # n => log'[k] = log[k] /\ currentTerm'[k] = currentTerm[k]
    BY <2>1, <2>3 DEF TypeOK
  <2>8. \A k \in Node : Ordered(LogPiece(log'[k]), currentTerm'[k])
    BY <2>5, <2>6, <2>7 DEF TermsInv
  <2> QED BY <1>1, <2>2, <2>8 DEF TermsInv, FirstRequests
<1>9. ASSUME NEW r \in appendReplies, HandleAppendSuccess(r) PROVE TermsInv'
  <2>1. UNCHANGED <<log, currentTerm, appendReqs>>
    BY <1>9 DEF HandleAppendSuccess, nodeVars
  <2> QED BY <2>1 DEF TermsInv, FirstRequests
<1> QED BY <1>4, <1>5, <1>6, <1>7, <1>8, <1>9, StepKinds

\* The terms are always in order, in the logs and in the requests.
LEMMA TermsAlways == Spec => []TermsInv
<1>1. ASSUME Init PROVE TermsInv
  <2>1. \A x \in Nat : ~Has(LogPiece(<<>>), x)
    BY EmptyLog
  <2>2. \A n \in Node : log[n] = <<>>
    BY <1>1 DEF Init
  <2>3. appendReqs = {}
    BY <1>1 DEF Init
  <2> QED BY <2>1, <2>2, <2>3 DEF TermsInv, FirstRequests, Ordered
<1>2. TypeOK /\ TermsInv /\ TypeOK' /\ [Next]_vars => TermsInv'
  BY TermsStep
<1> QED BY <1>1, <1>2, TypeCorrect, PTL DEF Spec

\* In every cluster, whatever is lost, delayed or restarted, the terms along a
\* log do not decrease and none is beyond the term of its node.
THEOREM LogTermsAlwaysOrdered == Spec => []LogTermsOrdered
<1>1. ASSUME TypeOK, TermsInv PROVE LogTermsOrdered
  <2> SUFFICES ASSUME NEW n \in Node, NEW i \in 1..Len(log[n])
               PROVE  /\ log[n][i].term <= currentTerm[n]
                      /\ \A j \in 1..i : log[n][j].term <= log[n][i].term
    BY DEF LogTermsOrdered
  <2>1. log[n] \in Seq(Entry) /\ Len(log[n]) \in Nat
    BY <1>1 DEF TypeOK
  <2>2. Ordered(LogPiece(log[n]), currentTerm[n])
    BY <1>1 DEF TermsInv
  <2>3. Has(LogPiece(log[n]), i) /\ i \in Nat
    BY <2>1, LogPieceFacts
  <2>4. /\ log[n][i].term <= currentTerm[n]
        /\ \A y \in 0..i : TermAt(LogPiece(log[n]), y) <= log[n][i].term
    BY <2>1, <2>2, <2>3, LogPieceFacts DEF Ordered
  <2>5. ASSUME NEW j \in 1..i PROVE log[n][j].term <= log[n][i].term
    <3>1. j \in 0..i /\ j \in Nat /\ j # 0
      BY <2>3
    <3>2. TermAt(LogPiece(log[n]), j) = log[n][j].term
      BY <2>1, <3>1, LogPieceFacts DEF TermAt
    <3> QED BY <2>4, <3>1, <3>2
  <2> QED BY <2>4, <2>5
<1> QED BY <1>1, TermsAlways, TypeCorrect, PTL DEF Spec

-----------------------------------------------------------------------------
(***************************************************************************)
(* Where a command stands.  A command is appended once, by one leader, at  *)
(* one place; from there logs, requests and callbacks only copy it to the  *)
(* same place elsewhere.  Again no assumption: two leaders of one term may *)
(* put different commands at one place, and a node may forget its log.     *)
(***************************************************************************)

AppliedPieces == {LogPiece(applied[n]) : n \in Node}
AllPieces == Pieces \cup AppliedPieces

\* Every entry in a piece is of a command some client has submitted.
OnlyIssued == \A p \in AllPieces, x \in Nat : Has(p, x) => At(p, x).cmd \in issued

\* Wherever a command is found, it is at the same place.
Placed == \A p, q \in AllPieces, x, y \in Nat :
    Has(p, x) /\ Has(q, y) /\ At(p, x).cmd = At(q, y).cmd => x = y

PlacesInv == OnlyIssued /\ Placed

\* What p holds was held before, at the same place.
Inherited(p) == \A x \in Nat : Has(p, x) =>
    \E q \in AllPieces : Has(q, x) /\ At(q, x) = At(p, x)

\* What the callbacks have seen after _apply_committed_entries was seen before
\* or stands at that place of the log.
LEMMA ApplyCommittedPlaces ==
    ASSUME NEW done \in Seq(Entry), NEW lg \in Seq(Entry),
           NEW ci \in Index, ci < Len(lg), NEW x \in Nat,
           Has(LogPiece(ApplyCommitted(done, lg, ci)), x)
    PROVE  LET A == LogPiece(ApplyCommitted(done, lg, ci))
           IN  \/ Has(LogPiece(done), x) /\ At(A, x) = At(LogPiece(done), x)
               \/ Has(LogPiece(lg), x) /\ At(A, x) = At(LogPiece(lg), x)
<1> DEFINE d == Len(done)
           s == SubSeq(lg, d + 1, ci + 1)
           a == done \o s
<1>1. d \in Nat /\ Len(lg) \in Nat /\ ci + 1 \in Nat /\ ci + 1 <= Len(lg)
  BY DEF Index
<1>2. \A i \in (d + 1)..(ci + 1) : lg[i] \in Entry
  BY <1>1, ElementOfSeq
<1>3. /\ s \in Seq(Entry)
      /\ Len(s) = IF d + 1 <= ci + 1 THEN (ci + 1) - (d + 1) + 1 ELSE 0
      /\ \A i \in 1..((ci + 1) - (d + 1) + 1) : s[i] = lg[(d + 1) + i - 1]
  <2>1. ci + 1 \in Int /\ d + 1 \in Int
    BY <1>1
  <2> HIDE DEF d, Entry
  <2> QED BY <1>1, <1>2, <2>1, SubSeqProperties
<1>4. /\ a \in Seq(Entry) /\ Len(a) = d + Len(s) /\ Len(s) \in Nat
      /\ \A i \in 1..(d + Len(s)) : a[i] = IF i <= d THEN done[i] ELSE s[i - d]
  <2> HIDE DEF s, Entry
  <2> QED BY <1>3, ConcatProperties
<1>5. a = ApplyCommitted(done, lg, ci)
  BY DEF ApplyCommitted
<1>6. x \in 1..(d + Len(s)) /\ At(LogPiece(a), x) = a[x]
  BY <1>4, <1>5, LogPieceFacts
<1>7. CASE x <= d
  <2>1. x \in 1..d /\ a[x] = done[x]
    BY <1>1, <1>4, <1>6, <1>7
  <2> HIDE DEF a
  <2> QED BY <1>5, <1>6, <2>1, LogPieceFacts
<1>8. CASE x > d
  <2>1. x - d \in 1..Len(s) /\ d + 1 <= ci + 1 /\ x \in 1..Len(lg)
        /\ (d + 1) + (x - d) - 1 = x
    BY <1>1, <1>3, <1>4, <1>6, <1>8
  <2>2. s[x - d] = lg[x]
    <3>1. x - d \in 1..((ci + 1) - (d + 1) + 1)
      BY <1>1, <1>3, <2>1
    <3> HIDE DEF s, d
    <3> QED BY <1>3, <2>1, <3>1
  <2>3. a[x] = lg[x]
    <3> HIDE DEF s, d, a
    <3> QED BY <1>1, <1>4, <1>6, <1>8, <2>2
  <2> HIDE DEF a
  <2> QED BY <1>5, <1>6, <2>1, <2>3, LogPieceFacts
<1> QED BY <1>1, <1>7, <1>8

\* _handle_append_entries: one log and what its callbacks have seen change.
LEMMA DeliveryEffect ==
    ASSUME TypeOK, NEW r \in appendReqs, HandleAppendEntries(r)
    PROVE  LET n == r.dst
               m == IF PrevMatches(r, log[n])
                    THEN MergeEntries(log[n], r.prevIndex, r.entries) ELSE log[n]
           IN  /\ n \in Node /\ r \in AppendRequest /\ m \in Seq(Entry)
               /\ log' = [log EXCEPT ![n] = m]
               /\ currentTerm' = [currentTerm EXCEPT ![n] = TermAfter(n, r)]
               /\ \A s \in appendReqs' : FromBefore(s)
               /\ issued' = issued /\ elected' = elected
               /\ \/ applied' = applied /\ commitIndex' = commitIndex
                  \/ /\ PrevMatches(r, log[n]) /\ r.commit > commitIndex[n]
                     /\ \E ci \in Index :
                           /\ ci = Smaller(r.commit, LastIndex(m)) /\ ci < Len(m)
                           /\ commitIndex' = [commitIndex EXCEPT ![n] = ci]
                           /\ applied' = [applied EXCEPT
                                            ![n] = ApplyCommitted(@, m, ci)]
<1> DEFINE n == r.dst
           m == IF PrevMatches(r, log[n])
                THEN MergeEntries(log[n], r.prevIndex, r.entries) ELSE log[n]
           ci == Smaller(r.commit, LastIndex(m))
<1>1. r \in AppendRequest /\ n \in Node
  BY DEF TypeOK, AppendRequest
<1>2. m \in Seq(Entry) /\ Len(m) \in Nat
  BY <1>1, MergedPiece DEF TypeOK
<1>3. /\ log' = [log EXCEPT ![n] = m]
      /\ currentTerm' = [currentTerm EXCEPT ![n] = TermAfter(n, r)]
      /\ issued' = issued /\ elected' = elected
  BY DEF HandleAppendEntries, historyVars
<1>4. \A s \in appendReqs' : FromBefore(s)
  <2>1. appendReqs' = appendReqs \ {r} \/ appendReqs' = Cancelled(appendReqs \ {r}, n)
    BY DEF HandleAppendEntries, BecomeFollower
  <2>2. CASE appendReqs' = appendReqs \ {r}
    BY <2>2 DEF FromBefore
  <2>3. CASE appendReqs' = Cancelled(appendReqs \ {r}, n)
    BY <2>3, CancelledFromBefore
  <2> QED BY <2>1, <2>2, <2>3
<1>5. CASE PrevMatches(r, log[n]) /\ r.commit > commitIndex[n]
  <2>1. /\ commitIndex' = [commitIndex EXCEPT ![n] = ci]
        /\ applied' = [applied EXCEPT ![n] = ApplyCommitted(@, m, ci)]
    BY <1>5 DEF HandleAppendEntries
  <2>2. ci \in Index /\ ci < Len(m)
    <3>1. r.commit \in Index
      BY <1>1 DEF AppendRequest
    <3> HIDE DEF m
    <3> QED BY <1>2, <3>1 DEF Smaller, LastIndex, Index
  <2> QED BY <1>1, <1>2, <1>3, <1>4, <1>5, <2>1, <2>2
<1>6. CASE ~(PrevMatches(r, log[n]) /\ r.commit > commitIndex[n])
  <2>1. /\ commitIndex' = [commitIndex EXCEPT ![n] = commitIndex[n]]
        /\ applied' = [applied EXCEPT ![n] = applied[n]]
    BY <1>6 DEF HandleAppendEntries
  <2>2. applied' = applied /\ commitIndex' = commitIndex
    BY <2>1 DEF TypeOK
  <2> QED BY <1>1, <1>2, <1>3, <1>4, <2>2
<1> QED BY <1>5, <1>6

\* _update_commit_index moves the commit index within the leader's log.
LEMMA CommitEffect ==
    ASSUME TypeOK, NEW r \in appendReplies, HandleAppendSuccess(r)
    PROVE  LET n == r.src
               match == [matchIndex[n] EXCEPT ![r.dst] = Larger(@, r.match)]
           IN  /\ n \in Node /\ r \in AppendReply /\ r.success
               /\ UNCHANGED <<log, appendReqs, issued, state, currentTerm, elected>>
               /\ matchIndex' = [matchIndex EXCEPT ![n] = match]
               /\ \/ applied' = applied /\ commitIndex' = commitIndex
                  \/ \E k \in Index :
                        /\ k = MedianIndex(n, match)
                        /\ k > commitIndex[n] /\ k < Len(log[n])
                        /\ state[n] = "leader"
                        /\ commitIndex' = [commitIndex EXCEPT ![n] = k]
                        /\ applied' = [applied EXCEPT
                                         ![n] = ApplyCommitted(@, log[n], k)]
<1> DEFINE n == r.src
           match == [matchIndex[n] EXCEPT ![r.dst] = Larger(@, r.match)]
           k == MedianIndex(n, match)
           commit == /\ state[n] = "leader"
                     /\ k \in (commitIndex[n] + 1)..LastIndex(log[n])
                     /\ log[n][k + 1].term = currentTerm[n]
<1>1. /\ r \in AppendReply /\ n \in Node /\ log[n] \in Seq(Entry)
      /\ commitIndex[n] \in Index
  BY DEF TypeOK, AppendReply
<1>2. /\ UNCHANGED <<log, appendReqs, issued, state, currentTerm, elected>>
      /\ r.success /\ matchIndex' = [matchIndex EXCEPT ![n] = match]
      /\ commitIndex' = [commitIndex EXCEPT ![n] = IF commit THEN k ELSE @]
      /\ applied' = [applied EXCEPT ![n] =
                       IF commit THEN ApplyCommitted(@, log[n], k) ELSE @]
  BY DEF HandleAppendSuccess, nodeVars, historyVars
<1>3. CASE commit
  <2> HIDE DEF k
  <2>1. k \in Index /\ k > commitIndex[n] /\ k < Len(log[n])
    BY <1>1, <1>3 DEF LastIndex, Index
  <2> QED BY <1>1, <1>2, <1>3, <2>1 DEF k
<1>4. CASE ~commit
  <2>1. commitIndex' = commitIndex /\ applied' = applied
    BY <1>2, <1>4 DEF TypeOK
  <2> QED BY <1>1, <1>2, <2>1
<1> QED BY <1>3, <1>4

\* Every entry found after a step was at its place before, but for the one
\* entry that append_entry adds.
LEMMA InheritsStep ==
    ASSUME TypeOK, TypeOK', [Next]_vars, NEW p \in AllPieces'
    PROVE  \/ Inherited(p) /\ issued \subseteq issued'
           \/ \E n \in Node, c \in Cmd :
                 /\ AppendEntry(n, c)
                 /\ p = LogPiece(Append(log[n], [term |-> currentTerm[n], cmd |-> c]))
<1> USE DEF AllPieces, Pieces, LogPieces, RequestPieces, AppliedPieces
<1>0. /\ \A n \in Node : /\ log[n] \in Seq(Entry) /\ LogPiece(log[n]) \in Piece
                         /\ applied[n] \in Seq(Entry)
      /\ \A r \in appendReqs : r \in AppendRequest /\ RequestPiece(r) \in Piece
  BY LogPieceFacts, RequestPieceFacts DEF TypeOK
<1>1. ASSUME p \in AllPieces PROVE Inherited(p)
  BY <1>1 DEF Inherited
<1>2. ASSUME NEW r, FromBefore(r), p = RequestPiece(r) PROVE Inherited(p)
  <2>1. p \in RequestPieces
    BY <1>0, <1>2, AbandonedPiece DEF FromBefore
  <2> QED BY <1>1, <2>1
<1>3. \/ \E n \in Node : p = LogPiece(log'[n])
      \/ \E n \in Node : p = LogPiece(applied'[n])
      \/ \E r \in appendReqs' : p = RequestPiece(r)
  OBVIOUS
<1>4. CASE Quiet
  BY <1>1, <1>2, <1>3, <1>4 DEF Quiet
<1>5. ASSUME NEW n \in Node, Sends(n) PROVE Inherited(p) /\ issued \subseteq issued'
  <2>1. log' = log /\ applied' = applied /\ issued' = issued
    BY <1>5 DEF Sends
  <2>2. PICK reach \in SUBSET Peers(n), origin \in Cmd \cup {Nil} :
          SendAppendEntries(n, reach, origin)
    BY <1>5 DEF Sends
  <2>3. ASSUME NEW r \in appendReqs', p = RequestPiece(r) PROVE Inherited(p)
    <3>1. CASE r \in appendReqs
      BY <1>1, <2>3, <3>1
    <3>2. CASE SliceOf(RequestPiece(r), LogPiece(log[n]))
      BY <2>3, <3>2 DEF SliceOf, Inherited
    <3> QED BY <2>2, <3>1, <3>2, SentSlices
  <2> QED BY <1>1, <1>3, <2>1, <2>3
<1>6. ASSUME NEW n \in Node, NEW c \in Cmd, AppendEntry(n, c)
      PROVE  \/ Inherited(p) /\ issued \subseteq issued'
             \/ p = LogPiece(Append(log[n], [term |-> currentTerm[n], cmd |-> c]))
  <2>1. /\ log' = [log EXCEPT ![n] = Append(@, [term |-> currentTerm[n], cmd |-> c])]
        /\ applied' = applied /\ appendReqs' = appendReqs
        /\ issued' = issued \cup {c}
    BY <1>6 DEF AppendEntry, appendNet
  <2>2. log \in [Node -> Seq(Entry)]
    BY DEF TypeOK
  <2> QED BY <1>1, <1>3, <2>1, <2>2
<1>7. ASSUME NEW r \in appendReqs, HandleAppendEntries(r)
      PROVE  Inherited(p) /\ issued \subseteq issued'
  <2> DEFINE n == r.dst
             m == IF PrevMatches(r, log[n])
                  THEN MergeEntries(log[n], r.prevIndex, r.entries) ELSE log[n]
  <2>1. /\ n \in Node /\ r \in AppendRequest /\ m \in Seq(Entry)
        /\ log' = [log EXCEPT ![n] = m]
        /\ \A s \in appendReqs' : FromBefore(s)
        /\ issued' = issued
        /\ \/ applied' = applied
           \/ \E ci \in Index : ci < Len(m)
                 /\ applied' = [applied EXCEPT ![n] = ApplyCommitted(@, m, ci)]
    BY <1>7, DeliveryEffect
  <2>2. Inherited(LogPiece(m))
    <3> SUFFICES ASSUME NEW x \in Nat, Has(LogPiece(m), x)
                 PROVE  \E q \in {LogPiece(log[n]), RequestPiece(r)} :
                            Has(q, x) /\ At(q, x) = At(LogPiece(m), x)
      BY <2>1 DEF Inherited
    <3>1. CASE m = log[n]
      BY <3>1
    <3>2. CASE PrevMatches(r, log[n]) /\ m # log[n]
      <4> DEFINE L == LogPiece(log[n])
                 R == RequestPiece(r)
      <4>1. /\ \A y \in Nat : Has(LogPiece(m), y) <=> y \in 1..(R.at + Len(r.entries))
            /\ \A y \in 1..R.at : Has(L, y) /\ At(LogPiece(m), y) = At(L, y)
            /\ \A y \in Nat : Has(LogPiece(m), y) /\ y > R.at =>
                  /\ Has(R, y)
                  /\ \/ At(LogPiece(m), y) = At(R, y)
                     \/ Has(L, y) /\ At(LogPiece(m), y) = At(L, y)
        BY <1>0, <2>1, <3>2, MergedPiece
      <4>2. R.at \in Nat
        BY <1>0 DEF Piece
      <4> HIDE DEF L, R, m, n
      <4>3. x > R.at \/ x \in 1..R.at
        BY <4>1, <4>2
      <4> QED BY <4>1, <4>3 DEF L, R
    <3> QED BY <3>1, <3>2
  <2>3. ASSUME NEW ci \in Index, ci < Len(m),
               p = LogPiece(ApplyCommitted(applied[n], m, ci))
        PROVE  Inherited(p)
    <3> SUFFICES ASSUME NEW x \in Nat, Has(p, x)
                 PROVE  \E q \in AllPieces : Has(q, x) /\ At(q, x) = At(p, x)
      BY DEF Inherited
    <3>1. \/ Has(LogPiece(applied[n]), x) /\ At(p, x) = At(LogPiece(applied[n]), x)
          \/ Has(LogPiece(m), x) /\ At(p, x) = At(LogPiece(m), x)
      <4> HIDE DEF m, n
      <4> QED BY <1>0, <2>1, <2>3, ApplyCommittedPlaces
    <3>2. LogPiece(applied[n]) \in AllPieces
      BY <2>1
    <3> QED BY <2>2, <3>1, <3>2 DEF Inherited
  <2>4. applied \in [Node -> Seq(Entry)] /\ log \in [Node -> Seq(Entry)]
    BY DEF TypeOK
  <2>5. ASSUME NEW k \in Node, p = LogPiece(log'[k]) PROVE Inherited(p)
    <3>1. CASE k = n
      BY <2>1, <2>2, <2>4, <2>5, <3>1
    <3>2. CASE k # n
      BY <1>1, <2>1, <2>4, <2>5, <3>2
    <3> QED BY <3>1, <3>2
  <2>6. ASSUME NEW k \in Node, p = LogPiece(applied'[k]) PROVE Inherited(p)
    <3>1. CASE applied'[k] = applied[k]
      BY <1>1, <2>6, <3>1
    <3>2. CASE applied'[k] # applied[k]
      <4> HIDE DEF m
      <4> QED BY <2>1, <2>3, <2>4, <2>6, <3>2
    <3> QED BY <3>1, <3>2
  <2> QED BY <1>2, <1>3, <2>1, <2>5, <2>6
<1>8. ASSUME NEW r \in appendReplies, HandleAppendSuccess(r)
      PROVE  Inherited(p) /\ issued \subseteq issued'
  <2> DEFINE n == r.src
  <2>1. /\ UNCHANGED <<log, appendReqs, issued>>
        /\ \/ applied' = applied
           \/ \E k \in Index : k < Len(log[n])
                 /\ applied' = [applied EXCEPT ![n] = ApplyCommitted(@, log[n], k)]
    BY <1>8, CommitEffect
  <2>2. ASSUME NEW k \in Index, k < Len(log[n]), n \in Node,
               p = LogPiece(ApplyCommitted(applied[n], log[n], k))
        PROVE  Inherited(p)
    BY <1>0, <2>2, ApplyCommittedPlaces DEF Inherited
  <2>3. applied \in [Node -> Seq(Entry)] /\ n \in Node
    BY DEF TypeOK, AppendReply
  <2>4. ASSUME NEW k \in Node, p = LogPiece(applied'[k]) PROVE Inherited(p)
    <3>1. CASE applied'[k] = applied[k]
      BY <1>1, <2>4, <3>1
    <3>2. CASE applied'[k] # applied[k]
      BY <2>1, <2>2, <2>3, <2>4, <3>2
    <3> QED BY <3>1, <3>2
  <2> QED BY <1>1, <1>3, <2>1, <2>4
<1>9. ASSUME NEW n \in Node, Restart(n) PROVE Inherited(p) /\ issued \subseteq issued'
  <2>1. /\ log' = [log EXCEPT ![n] = <<>>] /\ applied' = [applied EXCEPT ![n] = <<>>]
        /\ \A r \in appendReqs' : FromBefore(r)
        /\ issued' = issued
    BY <1>9 DEF Restart, FromBefore
  <2>2. Inherited(LogPiece(<<>>))
    BY EmptyLog DEF Inherited
  <2>3. \A k \in Node : /\ log'[k] \in {<<>>, log[k]}
                        /\ applied'[k] \in {<<>>, applied[k]}
    BY <2>1 DEF TypeOK
  <2> QED BY <1>1, <1>2, <1>3, <2>1, <2>2, <2>3
<1> QED BY <1>4, <1>5, <1>6, <1>7, <1>8, <1>9, StepKinds

\* Every step keeps the commands in their places.
LEMMA PlacesStep ==
    ASSUME TypeOK, TypeOK', PlacesInv, [Next]_vars
    PROVE  PlacesInv'
<1>1. CASE \E n \in Node, c \in Cmd : AppendEntry(n, c)
  <2>1. PICK n \in Node, c \in Cmd : AppendEntry(n, c)
    BY <1>1
  <2> DEFINE e == [term |-> currentTerm[n], cmd |-> c]
             new == Len(log[n]) + 1
  <2>2. c \notin issued /\ issued' = issued \cup {c}
        /\ log' = [log EXCEPT ![n] = Append(@, e)]
    BY <2>1 DEF AppendEntry
  <2>3. ASSUME NEW m \in Node, NEW d \in Cmd, AppendEntry(m, d) PROVE m = n /\ d = c
    <3>1. d \notin issued /\ issued' = issued \cup {d}
          /\ log' = [log EXCEPT ![m] = Append(@, [term |-> currentTerm[m], cmd |-> d])]
      BY <2>3 DEF AppendEntry
    <3>2. d = c
      BY <2>2, <3>1
    <3>3. log[m] \in Seq(Entry) /\ log \in [Node -> Seq(Entry)]
      BY DEF TypeOK
    <3>4. log'[m] = Append(log[m], [term |-> currentTerm[m], cmd |-> d])
      BY <3>1, <3>3
    <3>5. log'[m] # log[m]
      <4>1. [term |-> currentTerm[m], cmd |-> d] \in Entry
        BY DEF Entry, TypeOK
      <4>2. Len(log'[m]) = Len(log[m]) + 1 /\ Len(log[m]) \in Nat
        <5> HIDE DEF Entry
        <5> QED BY <3>3, <3>4, <4>1, AppendProperties
      <4> QED BY <4>2
    <3>6. m = n
      BY <2>2, <3>3, <3>5
    <3> QED BY <3>2, <3>6
  <2>4. /\ Append(log[n], e) \in Seq(Entry) /\ new \in Nat
        /\ Len(Append(log[n], e)) = new
        /\ \A x \in 1..Len(log[n]) : Append(log[n], e)[x] = log[n][x]
        /\ Append(log[n], e)[new] = e
    <3>1. e \in Entry /\ log[n] \in Seq(Entry)
      BY DEF Entry, TypeOK
    <3> HIDE DEF e, Entry
    <3> QED BY <3>1, AppendProperties
  <2>5. ASSUME NEW p \in AllPieces', NEW x \in Nat, Has(p, x)
        PROVE  \/ \E q \in AllPieces : Has(q, x) /\ At(q, x) = At(p, x)
               \/ x = new /\ At(p, x).cmd = c
    <3>1. CASE Inherited(p)
      BY <2>5, <3>1 DEF Inherited
    <3>2. CASE p = LogPiece(Append(log[n], e))
      <4>1. x \in 1..new /\ At(p, x) = Append(log[n], e)[x]
        <5> HIDE DEF e, new
        <5> QED BY <2>4, <2>5, <3>2, LogPieceFacts
      <4>2. CASE x = new
        BY <2>4, <4>1, <4>2
      <4>3. CASE x # new
        <5>0. log[n] \in Seq(Entry) /\ Len(log[n]) \in Nat
          BY DEF TypeOK
        <5>1. x \in 1..Len(log[n])
          BY <4>1, <4>3, <5>0
        <5>2. Has(LogPiece(log[n]), x) /\ At(LogPiece(log[n]), x) = At(p, x)
          BY <2>4, <4>1, <5>0, <5>1, LogPieceFacts
        <5>3. LogPiece(log[n]) \in AllPieces
          BY DEF AllPieces, Pieces, LogPieces
        <5> QED BY <5>2, <5>3
      <4> QED BY <4>2, <4>3
    <3> QED BY <2>3, <3>1, <3>2, InheritsStep
  <2> HIDE DEF new, e
  <2>6. OnlyIssued'
    BY <2>2, <2>5 DEF PlacesInv, OnlyIssued
  <2>7. Placed'
    <3> SUFFICES ASSUME NEW p \in AllPieces', NEW q \in AllPieces',
                        NEW x \in Nat, NEW y \in Nat, Has(p, x), Has(q, y),
                        At(p, x).cmd = At(q, y).cmd
                 PROVE  x = y
      BY DEF Placed
    <3>1. \/ \E f \in AllPieces : Has(f, x) /\ At(f, x) = At(p, x)
          \/ x = new /\ At(p, x).cmd = c
      BY <2>5
    <3>2. \/ \E f \in AllPieces : Has(f, y) /\ At(f, y) = At(q, y)
          \/ y = new /\ At(q, y).cmd = c
      BY <2>5
    <3> QED BY <2>2, <3>1, <3>2 DEF PlacesInv, Placed, OnlyIssued
  <2> QED BY <2>6, <2>7 DEF PlacesInv
<1>2. CASE \A n \in Node, c \in Cmd : ~AppendEntry(n, c)
  <2>1. \A p \in AllPieces' : Inherited(p) /\ issued \subseteq issued'
    BY <1>2, InheritsStep
  <2>2. OnlyIssued'
    BY <2>1 DEF PlacesInv, OnlyIssued, Inherited
  <2>3. Placed'
    BY <2>1 DEF PlacesInv, Placed, Inherited
  <2> QED BY <2>2, <2>3 DEF PlacesInv
<1> QED BY <1>1, <1>2

\* Two entries with one command stand at one place, in logs, requests and what
\* was applied (append_entry, _send_append_entries, _handle_append_entries).
LEMMA PlacesAlways == Spec => []PlacesInv
<1>1. ASSUME Init PROVE PlacesInv
  <2>1. \A p \in AllPieces : p = LogPiece(<<>>)
    BY <1>1 DEF Init, AllPieces, Pieces, LogPieces, RequestPieces, AppliedPieces
  <2> QED BY <2>1, EmptyLog DEF PlacesInv, OnlyIssued, Placed
<1>2. TypeOK /\ PlacesInv /\ TypeOK' /\ [Next]_vars => PlacesInv'
  BY PlacesStep
<1> QED BY <1>1, <1>2, TypeCorrect, PTL DEF Spec

\* In every cluster, whatever is lost, delayed or restarted, and even with two
\* leaders in one term, no callback sees a command twice on one node
\* (_handle_append_entries, _apply_committed_entries).
THEOREM CommandsAreAppliedOnce == Spec => []AppliedOnce
<1>1. ASSUME TypeOK, PlacesInv PROVE AppliedOnce
  <2> SUFFICES ASSUME NEW n \in Node, NEW i \in 1..Len(applied[n]),
                      NEW j \in 1..Len(applied[n]),
                      applied[n][i].cmd = applied[n][j].cmd
               PROVE  i = j
    BY DEF AppliedOnce
  <2> DEFINE p == LogPiece(applied[n])
  <2>1. applied[n] \in Seq(Entry) /\ i \in Nat /\ j \in Nat
    BY <1>1 DEF TypeOK
  <2>2. /\ Has(p, i) /\ At(p, i) = applied[n][i]
        /\ Has(p, j) /\ At(p, j) = applied[n][j]
    BY <2>1, LogPieceFacts
  <2>3. p \in AllPieces
    BY DEF AllPieces, AppliedPieces
  <2> HIDE DEF p
  <2> QED BY <1>1, <2>1, <2>2, <2>3 DEF PlacesInv, Placed
<1> QED BY <1>1, PlacesAlways, TypeCorrect, PTL

-----------------------------------------------------------------------------
(***************************************************************************)
(* Log matching, where elections are safe.  One node writes the entries of *)
(* a term, one after another; everyone else takes them over only where the *)
(* entry before agrees.  The invariant has to speak of the requests under  *)
(* way as of the logs, and to know that the leader of a term still holds   *)
(* all entries of that term while it leads.                                *)
(***************************************************************************)

PiecesMatch == \A p, q \in Pieces : Match(p, q)

\* No entry of a leader's term stands beyond the end of its log.
LeaderHasTerm == \A n \in Node : state[n] = "leader" =>
    \A p \in AllPieces, x \in Nat :
        Has(p, x) /\ At(p, x).term = currentTerm[n] => x <= Len(log[n])

\* Every entry was written in the term of an election.
TermsElected == \A p \in AllPieces, x \in Nat : Has(p, x) =>
    \E e \in elected : e.term = At(p, x).term

\* A node that was elected is in that term or beyond it, and beyond it before
\* it is a candidate again.
ElectedPast == \A e \in elected :
    /\ e.term <= currentTerm[e.node]
    /\ state[e.node] = "candidate" => e.term < currentTerm[e.node]

MatchingInv == PiecesMatch /\ LeaderHasTerm /\ TermsElected /\ ElectedPast

\* In an orderly cluster nobody restarts.
LEMMA NoRestart == ASSUME Orderly, TypeOK PROVE \A n \in Node : ~Restart(n)
BY DEF Orderly, TypeOK, Restart

\* The entry append_entry adds, among the entries there are.
LEMMA AppendedPiece ==
    ASSUME TypeOK, NEW n \in Node, NEW c \in Cmd, NEW x \in Nat,
           Has(LogPiece(Append(log[n], [term |-> currentTerm[n], cmd |-> c])), x)
    PROVE  LET p == LogPiece(Append(log[n], [term |-> currentTerm[n], cmd |-> c]))
           IN  \/ Has(LogPiece(log[n]), x) /\ At(LogPiece(log[n]), x) = At(p, x)
               \/ x = Len(log[n]) + 1 /\ At(p, x).term = currentTerm[n]
<1> DEFINE e == [term |-> currentTerm[n], cmd |-> c]
           m == Append(log[n], e)
<1>1. log[n] \in Seq(Entry) /\ Len(log[n]) \in Nat /\ e \in Entry
      /\ e.term = currentTerm[n]
  <2>1. log[n] \in Seq(Entry) /\ currentTerm[n] \in Nat
    BY DEF TypeOK
  <2> QED BY <2>1 DEF Entry
<1> HIDE DEF e
<1>2. /\ m \in Seq(Entry) /\ Len(m) = Len(log[n]) + 1 /\ m[Len(log[n]) + 1] = e
      /\ \A i \in 1..Len(log[n]) : m[i] = log[n][i]
  <2> HIDE DEF Entry
  <2> QED BY <1>1, AppendProperties
<1>3. Has(LogPiece(m), x)
  BY DEF e
<1> HIDE DEF m
<1>4. x \in 1..(Len(log[n]) + 1) /\ At(LogPiece(m), x) = m[x]
  BY <1>2, <1>3, LogPieceFacts
<1>5. CASE x = Len(log[n]) + 1
  BY <1>1, <1>2, <1>4, <1>5 DEF m, e
<1>6. CASE x # Len(log[n]) + 1
  <2>1. x \in 1..Len(log[n])
    BY <1>1, <1>4, <1>6
  <2>2. Has(LogPiece(log[n]), x) /\ At(LogPiece(log[n]), x) = At(LogPiece(m), x)
    BY <1>1, <1>2, <1>4, <2>1, LogPieceFacts
  <2> QED BY <2>2 DEF m, e
<1> QED BY <1>5, <1>6

\* Nobody is elected twice in a term, and nothing is written before.
LEMMA WritersStep ==
    ASSUME Orderly, TypeOK, TypeOK', [Next]_vars, ElectionSafety, ElectionSafety',
           LeaderOwnsItsTerm, LeaderHasTerm, TermsElected, ElectedPast
    PROVE  LeaderHasTerm' /\ TermsElected' /\ ElectedPast'
<1>0. /\ \A n \in Node : log[n] \in Seq(Entry) /\ Len(log[n]) \in Nat
                         /\ log'[n] \in Seq(Entry) /\ Len(log'[n]) \in Nat
                         /\ currentTerm[n] \in Nat /\ currentTerm'[n] \in Nat
      /\ \A e \in elected : e.node \in Node /\ e.term \in Nat
      /\ \A n \in Node : LogPiece(log[n]) \in AllPieces
  BY SMTT(30) DEF TypeOK, AllPieces, Pieces, LogPieces
<1>1. /\ \A m \in Node :
           /\ currentTerm'[m] >= currentTerm[m]
           /\ state'[m] = "leader" =>
                 \/ state[m] = "leader" /\ currentTerm'[m] = currentTerm[m]
                 \/ BecomeLeader(m)
           /\ state'[m] = "candidate" =>
                 \/ state[m] = "candidate" /\ currentTerm'[m] = currentTerm[m]
                 \/ currentTerm'[m] > currentTerm[m]
      /\ elected' = elected \/ \E m \in Node : BecomeLeader(m)
  BY NoRestart, RoleEffect
<1>2. ASSUME NEW m \in Node, BecomeLeader(m)
      PROVE  /\ elected' = elected \cup {[node |-> m, term |-> currentTerm[m]]}
             /\ currentTerm' = currentTerm /\ log' = log
             /\ state[m] = "candidate" /\ state'[m] = "leader"
             /\ \A e \in elected : e.term = currentTerm[m] => e.node = m
  <2>1. /\ elected' = elected \cup {[node |-> m, term |-> currentTerm[m]]}
        /\ currentTerm' = currentTerm /\ log' = log
        /\ state[m] = "candidate" /\ state'[m] = "leader"
    BY <1>2 DEF BecomeLeader, HasWon, logVars, TypeOK
  <2> DEFINE f == [node |-> m, term |-> currentTerm[m]]
  <2>2. f \in elected' /\ f.node = m /\ f.term = currentTerm[m]
    BY <2>1
  <2> HIDE DEF f
  <2>3. \A e \in elected : e.term = currentTerm[m] => e.node = m
    BY <2>1, <2>2 DEF ElectionSafety
  <2> QED BY <2>1, <2>3
<1>9. ASSUME NEW n \in Node, state[n] = "leader"
      PROVE  \A e \in elected : e.term = currentTerm[n] => e.node = n
  <2> DEFINE f == [node |-> n, term |-> currentTerm[n]]
  <2>1. f \in elected /\ f.node = n /\ f.term = currentTerm[n]
    BY <1>9 DEF LeaderOwnsItsTerm
  <2> HIDE DEF f
  <2> QED BY <2>1 DEF ElectionSafety
<1>3. elected \subseteq elected'
  BY <1>1, <1>2
<1>4. ASSUME NEW m \in Node, NEW c \in Cmd, AppendEntry(m, c)
      PROVE  /\ state[m] = "leader" /\ state' = state /\ currentTerm' = currentTerm
             /\ Len(log'[m]) = Len(log[m]) + 1 /\ elected' = elected
             /\ \E e \in elected : e.term = currentTerm[m] /\ e.node = m
  <2>1. /\ state[m] = "leader" /\ state' = state /\ currentTerm' = currentTerm
        /\ elected' = elected
        /\ log' = [log EXCEPT ![m] = Append(@, [term |-> currentTerm[m], cmd |-> c])]
    BY <1>4 DEF AppendEntry, nodeVars
  <2>2. log'[m] = Append(log[m], [term |-> currentTerm[m], cmd |-> c])
    BY <2>1 DEF TypeOK
  <2>3. [term |-> currentTerm[m], cmd |-> c] \in Entry
    BY <1>0 DEF Entry
  <2>4. Len(log'[m]) = Len(log[m]) + 1
    <3> HIDE DEF Entry
    <3> QED BY <1>0, <2>2, <2>3, AppendProperties
  <2> DEFINE f == [node |-> m, term |-> currentTerm[m]]
  <2>5. f \in elected /\ f.node = m /\ f.term = currentTerm[m]
    BY <2>1 DEF LeaderOwnsItsTerm
  <2> QED BY <2>1, <2>4, <2>5
<1>5. ASSUME NEW p \in AllPieces', NEW x \in Nat, Has(p, x)
      PROVE  \/ \E q \in AllPieces : Has(q, x) /\ At(q, x) = At(p, x)
             \/ \E m \in Node, c \in Cmd :
                   /\ AppendEntry(m, c)
                   /\ x = Len(log[m]) + 1 /\ At(p, x).term = currentTerm[m]
  <2>1. CASE Inherited(p)
    BY <1>5, <2>1 DEF Inherited
  <2>2. ASSUME NEW m \in Node, NEW c \in Cmd, AppendEntry(m, c),
               p = LogPiece(Append(log[m], [term |-> currentTerm[m], cmd |-> c]))
        PROVE  \/ Has(LogPiece(log[m]), x) /\ At(LogPiece(log[m]), x) = At(p, x)
               \/ x = Len(log[m]) + 1 /\ At(p, x).term = currentTerm[m]
    BY <1>5, <2>2, AppendedPiece
  <2> QED BY ZenonT(60), <1>0, <2>1, <2>2, InheritsStep
<1>6. TermsElected'
  <2> SUFFICES ASSUME NEW p \in AllPieces', NEW x \in Nat, Has(p, x)
               PROVE  \E e \in elected' : e.term = At(p, x).term
    BY DEF TermsElected
  <2>1. CASE \E q \in AllPieces : Has(q, x) /\ At(q, x) = At(p, x)
    BY <1>3, <2>1 DEF TermsElected
  <2>2. CASE \E m \in Node, c \in Cmd :
               AppendEntry(m, c) /\ At(p, x).term = currentTerm[m]
    BY <1>3, <1>4, <2>2
  <2> QED BY <1>5, <2>1, <2>2
<1>7. LeaderHasTerm'
  <2> SUFFICES ASSUME NEW n \in Node, state'[n] = "leader",
                      NEW p \in AllPieces', NEW x \in Nat, Has(p, x),
                      At(p, x).term = currentTerm'[n]
               PROVE  x <= Len(log'[n])
    BY DEF LeaderHasTerm
  <2>1. CASE state[n] = "leader" /\ currentTerm'[n] = currentTerm[n]
    <3>1. Len(log[n]) <= Len(log'[n])
      BY <2>1, LeaderLogStep
    <3>2. CASE \E q \in AllPieces : Has(q, x) /\ At(q, x) = At(p, x)
      <4>1. x <= Len(log[n])
        BY <2>1, <3>2 DEF LeaderHasTerm
      <4> QED BY <1>0, <3>1, <4>1
    <3>3. ASSUME NEW m \in Node, NEW c \in Cmd, AppendEntry(m, c),
                 x = Len(log[m]) + 1, At(p, x).term = currentTerm[m]
          PROVE  x <= Len(log'[n])
      <4>1. PICK e \in elected : e.term = currentTerm[m] /\ e.node = m
        BY <1>4, <3>3
      <4>2. m = n
        BY <1>9, <2>1, <3>3, <4>1
      <4> QED BY <1>0, <1>4, <3>3, <4>2
    <3> QED BY <1>5, <3>2, <3>3
  <2>2. CASE BecomeLeader(n)
    <3>1. state[n] = "candidate" /\ currentTerm' = currentTerm /\ state'[n] = "leader"
      BY <1>2, <2>2
    <3>2. \A m \in Node, c \in Cmd : ~AppendEntry(m, c)
      BY <1>4, <3>1
    <3>3. PICK q \in AllPieces : Has(q, x) /\ At(q, x) = At(p, x)
      BY <1>5, <3>2
    <3>4. PICK e \in elected : e.term = currentTerm[n]
      BY <3>1, <3>3 DEF TermsElected
    <3>5. e.node = n
      BY <1>2, <2>2, <3>4
    <3> QED BY <1>0, <3>1, <3>4, <3>5 DEF ElectedPast
  <2> QED BY <1>1, <2>1, <2>2
<1>8. ElectedPast'
  <2>1. ASSUME NEW e \in elected
        PROVE  /\ e.term <= currentTerm'[e.node]
               /\ state'[e.node] = "candidate" => e.term < currentTerm'[e.node]
    BY <1>0, <1>1, <2>1 DEF ElectedPast
  <2>2. ASSUME NEW m \in Node, BecomeLeader(m)
        PROVE  LET e == [node |-> m, term |-> currentTerm[m]]
               IN  /\ e.term <= currentTerm'[e.node]
                   /\ state'[e.node] = "candidate" => e.term < currentTerm'[e.node]
    BY <1>0, <1>2, <2>2
  <2> QED BY <1>1, <1>2, <2>1, <2>2 DEF ElectedPast
<1> QED BY <1>6, <1>7, <1>8

\* Pieces cut out of pieces that match each other match each other.
LEMMA SlicesMatch ==
    ASSUME NEW p \in Piece, NEW q \in Piece, NEW f \in Piece, NEW g \in Piece,
           SliceOf(p, f), SliceOf(q, g), Match(f, g)
    PROVE  Match(p, q)
<1>1. Match(p, g)
  BY SliceMatches
<1>2. Match(g, p)
  BY <1>1, MatchSymmetric
<1>3. Match(q, p)
  BY <1>2, SliceMatches
<1> QED BY <1>3, MatchSymmetric

\* Every step keeps the logs and the requests matching.
LEMMA PiecesMatchStep ==
    ASSUME TypeOK, TypeOK', [Next]_vars, \A n \in Node : ~Restart(n),
           FirstRequests, PiecesMatch, LeaderHasTerm
    PROVE  PiecesMatch'
<1> USE DEF Pieces, LogPieces, RequestPieces
<1>0. /\ \A n \in Node : log[n] \in Seq(Entry) /\ LogPiece(log[n]) \in Piece
      /\ \A r \in appendReqs : r \in AppendRequest /\ RequestPiece(r) \in Piece
      /\ \A p \in Pieces : p \in Piece
      /\ \A p \in Pieces' : p \in Piece
      /\ log \in [Node -> Seq(Entry)]
  BY LogPieceFacts, RequestPieceFacts DEF TypeOK
<1>1. ASSUME NEW r, FromBefore(r) PROVE RequestPiece(r) \in Pieces
  BY <1>0, <1>1, AbandonedPiece DEF FromBefore
<1>2. ASSUME Pieces' \subseteq Pieces PROVE PiecesMatch'
  BY <1>2 DEF PiecesMatch
<1>3. ASSUME NEW f \in Piece, Pieces' \subseteq Pieces \cup {f},
             \A b \in Pieces : Match(f, b)
      PROVE  PiecesMatch'
  <2> SUFFICES ASSUME NEW p \in Pieces', NEW q \in Pieces' PROVE Match(p, q)
    BY DEF PiecesMatch
  <2>1. (p \in Pieces \/ p = f) /\ (q \in Pieces \/ q = f)
    BY <1>3
  <2> QED BY <1>3, <2>1, MatchSymmetric, MatchSelf DEF PiecesMatch
<1>4. CASE Quiet
  BY <1>1, <1>2, <1>4 DEF Quiet
<1>5. ASSUME NEW n \in Node, Sends(n) PROVE PiecesMatch'
  <2>1. PICK reach \in SUBSET Peers(n), origin \in Cmd \cup {Nil} :
          SendAppendEntries(n, reach, origin)
    BY <1>5 DEF Sends
  <2>2. log' = log
    BY <1>5 DEF Sends
  <2>3. \A p \in Piece : SliceOf(p, p)
    BY DEF SliceOf, Piece
  <2>4. ASSUME NEW p \in Pieces' PROVE \E f \in Pieces : SliceOf(p, f)
    <3>1. CASE p \in Pieces
      BY <1>0, <2>3, <3>1
    <3>2. ASSUME NEW r \in appendReqs', p = RequestPiece(r)
          PROVE  \E f \in Pieces : SliceOf(p, f)
      <4>1. r \in appendReqs \/ SliceOf(RequestPiece(r), LogPiece(log[n]))
        BY <2>1, SentSlices
      <4> QED BY <3>1, <3>2, <4>1
    <3> QED BY <2>2, <2>4, <3>1, <3>2
  <2>5. ASSUME NEW p \in Pieces', NEW q \in Pieces' PROVE Match(p, q)
    <3>1. PICK f \in Pieces : SliceOf(p, f)
      BY <2>4
    <3>2. PICK g \in Pieces : SliceOf(q, g)
      BY <2>4
    <3>3. Match(f, g)
      BY DEF PiecesMatch
    <3> QED BY <1>0, <3>1, <3>2, <3>3, SlicesMatch
  <2> QED BY <2>5 DEF PiecesMatch
<1>6. ASSUME NEW n \in Node, NEW c \in Cmd, AppendEntry(n, c) PROVE PiecesMatch'
  <2> DEFINE e == [term |-> currentTerm[n], cmd |-> c]
             M == LogPiece(Append(log[n], e))
  <2>1. /\ log' = [log EXCEPT ![n] = Append(@, e)]
        /\ appendReqs' = appendReqs /\ state[n] = "leader"
    BY <1>6 DEF AppendEntry, appendNet
  <2>2. Pieces' \subseteq Pieces \cup {M}
    BY <1>0, <2>1
  <2>3. e \in Entry /\ e.term = currentTerm[n]
    <3>1. currentTerm[n] \in Nat
      BY DEF TypeOK
    <3> QED BY <3>1 DEF Entry
  <2>4. \A b \in Pieces, x \in Nat : Has(b, x) /\ At(b, x).term = e.term
                                      => x <= Len(log[n])
    BY <2>1, <2>3 DEF LeaderHasTerm, AllPieces
  <2> HIDE DEF e
  <2>5. \A b \in Pieces : Match(M, b)
    <3> SUFFICES ASSUME NEW b \in Pieces PROVE Match(M, b)
      OBVIOUS
    <3>1. Match(LogPiece(log[n]), b) /\ b \in Piece
      BY <1>0 DEF PiecesMatch
    <3> QED BY <1>0, <2>3, <2>4, <3>1, AppendMatches
  <2>6. M \in Piece
    <3>1. Append(log[n], e) \in Seq(Entry)
      <4> HIDE DEF Entry
      <4> QED BY <1>0, <2>3, AppendProperties
    <3> QED BY <3>1, LogPieceFacts
  <2> QED BY <1>3, <2>2, <2>5, <2>6
<1>7. ASSUME NEW r \in appendReqs, HandleAppendEntries(r) PROVE PiecesMatch'
  <2> DEFINE n == r.dst
             m == IF PrevMatches(r, log[n])
                  THEN MergeEntries(log[n], r.prevIndex, r.entries) ELSE log[n]
             M == LogPiece(m)
  <2>1. /\ n \in Node /\ r \in AppendRequest /\ m \in Seq(Entry)
        /\ log' = [log EXCEPT ![n] = m]
        /\ \A s \in appendReqs' : FromBefore(s)
    BY <1>7, DeliveryEffect
  <2>2. Pieces' \subseteq Pieces \cup {M}
    <3> HIDE DEF m, n
    <3> QED BY <1>0, <1>1, <2>1
  <2>3. ASSUME NEW b \in Pieces PROVE Match(M, b)
    <3>1. /\ Match(LogPiece(log[n]), RequestPiece(r)) /\ Match(LogPiece(log[n]), b)
          /\ Match(RequestPiece(r), b) /\ b \in Piece
      BY <1>0, <2>1 DEF PiecesMatch
    <3>2. r.prevIndex = -1 => r.prevTerm = 0
      BY DEF FirstRequests
    <3>3. CASE PrevMatches(r, log[n])
      BY <1>0, <2>1, <3>1, <3>2, <3>3, MergeMatches
    <3>4. CASE ~PrevMatches(r, log[n])
      BY <3>1, <3>4
    <3> QED BY <3>3, <3>4
  <2>4. M \in Piece
    <3> HIDE DEF m
    <3> QED BY <2>1, LogPieceFacts
  <2> HIDE DEF M
  <2> QED BY <1>3, <2>2, <2>3, <2>4
<1>8. ASSUME NEW r \in appendReplies, HandleAppendSuccess(r) PROVE PiecesMatch'
  <2>1. log' = log /\ appendReqs' = appendReqs
    BY <1>8, CommitEffect
  <2> QED BY <1>2, <2>1
<1> QED BY <1>4, <1>5, <1>6, <1>7, <1>8, StepKinds

\* Two logs that match as pieces satisfy log matching.
LEMMA MatchingLogs ==
    ASSUME NEW a \in Seq(Entry), NEW b \in Seq(Entry), Match(LogPiece(a), LogPiece(b)),
           NEW i \in 1..Smaller(Len(a), Len(b)), a[i].term = b[i].term
    PROVE  SubSeq(a, 1, i) = SubSeq(b, 1, i)
<1>1. /\ i \in Nat /\ i <= Len(a) /\ i <= Len(b) /\ i \in 1..Len(a) /\ i \in 1..Len(b)
      /\ Len(a) \in Nat /\ Len(b) \in Nat
  BY DEF Smaller
<1>2. ASSUME NEW j \in 1..i PROVE a[j] = b[j] /\ a[j] \in Entry /\ b[j] \in Entry
  <2>1. /\ j \in Nat /\ j \in 0..i /\ j \in 1..Len(a) /\ j \in 1..Len(b)
    BY <1>1
  <2>2. /\ Has(LogPiece(a), i) /\ At(LogPiece(a), i) = a[i]
        /\ Has(LogPiece(b), i) /\ At(LogPiece(b), i) = b[i]
        /\ Has(LogPiece(a), j) /\ At(LogPiece(a), j) = a[j]
        /\ Has(LogPiece(b), j) /\ At(LogPiece(b), j) = b[j]
    BY <1>1, <2>1, LogPieceFacts
  <2>3. a[j] = b[j]
    BY <1>1, <2>1, <2>2 DEF Match
  <2> QED BY <2>1, <2>3, ElementOfSeq
<1> HIDE DEF Entry
<1>3. /\ SubSeq(a, 1, i) \in Seq(Entry) /\ Len(SubSeq(a, 1, i)) = i
      /\ \A j \in 1..i : SubSeq(a, 1, i)[j] = a[j]
  <2>1. \A j \in 1..i : a[j] \in Entry /\ 1 + j - 1 = j
    BY <1>1, <1>2
  <2> QED BY <1>1, <2>1, SubSeqProperties
<1>4. /\ SubSeq(b, 1, i) \in Seq(Entry) /\ Len(SubSeq(b, 1, i)) = i
      /\ \A j \in 1..i : SubSeq(b, 1, i)[j] = b[j]
  <2>1. \A j \in 1..i : b[j] \in Entry /\ 1 + j - 1 = j
    BY <1>1, <1>2
  <2> QED BY <1>1, <2>1, SubSeqProperties
<1>5. \A j \in 1..i : SubSeq(a, 1, i)[j] = SubSeq(b, 1, i)[j]
  BY <1>2, <1>3, <1>4
<1> QED BY <1>3, <1>4, <1>5, SeqEqual

\* While elections are safe, two logs that hold an entry of one term at one
\* index are equal up to it (_send_append_entries, _handle_append_entries,
\* append_entry), although a request of an old term is served like any other.
THEOREM LogsMatch == ASSUME Orderly PROVE Spec => []LogMatching
<1>1. ASSUME Init PROVE MatchingInv
  <2>1. /\ \A p \in AllPieces : p = LogPiece(<<>>)
        /\ \A p \in Pieces : p = LogPiece(<<>>)
        /\ elected = {} /\ \A n \in Node : state[n] = "follower"
    BY <1>1 DEF Init, AllPieces, Pieces, LogPieces, RequestPieces, AppliedPieces
  <2> QED BY <2>1, EmptyLog, MatchSelf DEF MatchingInv, PiecesMatch, LeaderHasTerm,
                                      TermsElected, ElectedPast
<1>2. ASSUME TypeOK, TypeOK', ElectionSafety, ElectionSafety', LeaderOwnsItsTerm,
             TermsInv, MatchingInv, [Next]_vars
      PROVE  MatchingInv'
  BY <1>2, NoRestart, WritersStep, PiecesMatchStep DEF MatchingInv, TermsInv
<1>3. ASSUME TypeOK, MatchingInv PROVE LogMatching
  <2> SUFFICES ASSUME NEW m \in Node, NEW n \in Node,
                      NEW i \in 1..Smaller(Len(log[m]), Len(log[n])),
                      log[m][i].term = log[n][i].term
               PROVE  SubSeq(log[m], 1, i) = SubSeq(log[n], 1, i)
    BY DEF LogMatching
  <2>1. /\ log[m] \in Seq(Entry) /\ log[n] \in Seq(Entry)
        /\ Match(LogPiece(log[m]), LogPiece(log[n]))
    <3>1. log[m] \in Seq(Entry) /\ log[n] \in Seq(Entry)
      BY <1>3 DEF TypeOK
    <3>2. LogPiece(log[m]) \in Pieces /\ LogPiece(log[n]) \in Pieces
      BY DEF Pieces, LogPieces
    <3> QED BY <1>3, <3>1, <3>2 DEF MatchingInv, PiecesMatch
  <2> QED BY <2>1, MatchingLogs
<1> QED BY <1>1, <1>2, <1>3, TypeCorrect, ElectionsAreSafe, LeadersOwnTheirTerms,
           TermsAlways, PTL DEF Spec
=============================================================================
