---------------------------- MODULE BackupProofs ----------------------------
(***************************************************************************)
(* Backup is type correct; what is at <path> is always one whole backup    *)
(* and a restore brings back one whole backup, when no two backups write   *)
(* at a time; and no run of a migration is forgotten.                      *)
(***************************************************************************)
EXTENDS Backup, FiniteSetTheorems, SequenceTheorems, TLAPS

AnyHash == Hashes \cup {NoHash}

Frames ==
    [is : {"header"}, hash : AnyHash]
    \cup [is : {"entry"}, key : Keys, val : Vals]
    \cup [is : {"entry"}, key : {Ledger}, val : SUBSET Versions]
    \cup [is : {"crc"}, sum : {Body(d, h) : d \in Databases, h \in AnyHash}]
    \cup {Sentinel, Junk}
-----------------------------------------------------------------------------
(* The format.                                                             *)

\* SetToSeq lists a finite set, each element once.
LEMMA Enumerated ==
    ASSUME NEW S, IsFiniteSet(S)
    PROVE  /\ SetToSeq(S) \in Seq(S)
           /\ \A x \in S : \E n \in 1..Len(SetToSeq(S)) : SetToSeq(S)[n] = x
           /\ \A m, n \in 1..Len(SetToSeq(S)) :
                  SetToSeq(S)[m] = SetToSeq(S)[n] => m = n
<1> DEFINE c == Cardinality(S)
           f == SetToSeq(S)
<1>1. c \in Nat /\ ExistsBijection(1..c, S)
  BY FS_CardinalityType
<1>2. PICK b \in Bijection(1..c, S) : TRUE
  BY <1>1 DEF ExistsBijection
<1>3. b \in [1..c -> S] /\ IsInjective(b)
  BY <1>2 DEF Bijection, Injection
<1>4. f \in [1..c -> S] /\ IsInjective(f)
  BY <1>3 DEF SetToSeq
<1> HIDE DEF f
<1>5. f \in Injection(1..c, S)
  BY <1>4 DEF Injection
<1>6. IsFiniteSet(1..c) /\ Cardinality(1..c) = c
  BY <1>1, FS_Interval
<1>7. f \in Surjection(1..c, S)
  BY <1>5, <1>6, FS_Injection
<1>8. Len(f) = c /\ f \in Seq(S)
  BY <1>1, <1>4
<1>9. \A x \in S : \E n \in 1..c : f[n] = x
  BY <1>7 DEF Surjection
<1>10. \A m, n \in 1..c : f[m] = f[n] => m = n
  BY <1>4 DEF IsInjective
<1> QED BY <1>8, <1>9, <1>10 DEF f

\* The entries of a database can be listed.
LEMMA EntriesFinite ==
    ASSUME NEW d \in Databases
    PROVE  IsFiniteSet(Entries(d))
<1> DEFINE P == {k \in Keys : d.rows[k] # NoValue}
           E == {Entry(k, d.rows[k]) : k \in P}
           f == [k \in P |-> Entry(k, d.rows[k])]
<1>1. IsFiniteSet(P)
  BY FS_Subset, BackupAssumption
<1>2. f \in Surjection(P, E)
  BY DEF Surjection
<1>3. IsFiniteSet(E)
  BY <1>1, <1>2, FS_Surjection
<1>4. IsFiniteSet(E \cup {Entry(Ledger, d.ledger)})
  BY <1>3, FS_AddElement
<1>5. Entries(d) = E \/ Entries(d) = E \cup {Entry(Ledger, d.ledger)}
  BY DEF Entries
<1> QED BY <1>3, <1>4, <1>5

\* What the parts of an image are, position by position.
LEMMA ImageShape ==
    ASSUME NEW d \in Databases, NEW h \in AnyHash
    PROVE  LET L == ListEntriesRaw(d)
               I == Image(d, h)
           IN  /\ L \in Seq(Entries(d)) /\ Len(L) \in Nat
               /\ I \in Seq(Frames)
               /\ Len(I) = Len(L) + 3
               /\ I[1] = Header(h)
               /\ \A m \in 1..Len(L) : I[m + 1] = L[m]
               /\ I[Len(L) + 2] = Sentinel
               /\ I[Len(L) + 3] = Crc(Body(d, h))
               /\ Body(d, h) \in Seq(Frames) /\ Len(Body(d, h)) = Len(L) + 2
               /\ \A m \in 1..(Len(L) + 2) : I[m] = Body(d, h)[m]
<1> DEFINE L == ListEntriesRaw(d)
           B == Body(d, h)
           I == Image(d, h)
<1>1. L \in Seq(Entries(d))
  BY EntriesFinite, Enumerated DEF ListEntriesRaw
<1>2. Entries(d) \subseteq Frames
  BY DEF Entries, Entry, Frames, Databases
<1>3. Header(h) \in Frames /\ Sentinel \in Frames /\ Crc(B) \in Frames
  BY DEF Header, Frames, Crc
<1>4. L \in Seq(Frames)
  BY <1>1, <1>2, SeqMonotonic
<1> HIDE DEF L
<1>5. /\ B \in Seq(Frames) /\ Len(B) = Len(L) + 2
      /\ B[1] = Header(h)
      /\ \A m \in 1..Len(L) : B[m + 1] = L[m]
      /\ B[Len(L) + 2] = Sentinel
  <2>1. B = (<<Header(h)>> \o L) \o <<Sentinel>>
    BY DEF Body, L
  <2> HIDE DEF B
  <2> QED BY <2>1, <1>3, <1>4
<1>6. I = Append(B, Crc(B))
  BY DEF Image
<1> HIDE DEF B, I
<1>7. Len(L) \in Nat
  BY <1>4
<1>8. /\ I \in Seq(Frames) /\ Len(I) = Len(B) + 1
      /\ \A m \in 1..Len(B) : I[m] = B[m]
      /\ I[Len(B) + 1] = Crc(B)
  BY <1>3, <1>5, <1>6, AppendProperties
<1>9. /\ Len(I) = Len(L) + 3 /\ I[1] = Header(h)
      /\ \A m \in 1..Len(L) : I[m + 1] = L[m]
      /\ I[Len(L) + 2] = Sentinel /\ I[Len(L) + 3] = Crc(B)
      /\ \A m \in 1..(Len(L) + 2) : I[m] = B[m]
  BY <1>5, <1>7, <1>8
<1> QED BY <1>1, <1>5, <1>7, <1>8, <1>9 DEF L, B, I

\* Kinds of frames are told apart.
LEMMA Kinds ==
    /\ \A h : Header(h).is = "header" /\ Header(h).hash = h
    /\ \A k, v : Entry(k, v).is = "entry" /\ Entry(k, v).key = k /\ Entry(k, v).val = v
    /\ \A s : Crc(s).is = "crc" /\ Crc(s).sum = s
    /\ Sentinel.is = "sentinel" /\ Junk.is = "junk"
  BY DEF Header, Entry, Crc, Sentinel, Junk

\* The entries of an image end where its sentinel is.
LEMMA EndOfImage ==
    ASSUME NEW d \in Databases, NEW h \in AnyHash
    PROVE  /\ EndOfEntries(Image(d, h)) = Len(ListEntriesRaw(d)) + 2
           /\ \A m \in 1..Len(ListEntriesRaw(d)) : Image(d, h)[m + 1].is = "entry"
<1> DEFINE L == ListEntriesRaw(d)
           I == Image(d, h)
           e == Len(L) + 2
           ends == {n \in 2..Len(I) : /\ I[1].is = "header"
                                      /\ I[n].is = "sentinel"
                                      /\ \A m \in 2..(n - 1) : I[m].is = "entry"}
<1>1. /\ L \in Seq(Entries(d)) /\ Len(L) \in Nat /\ Len(I) = Len(L) + 3
      /\ I[1] = Header(h) /\ I[e] = Sentinel
      /\ I[Len(L) + 3] = Crc(Body(d, h))
      /\ \A m \in 1..Len(L) : I[m + 1] = L[m]
  BY ImageShape
<1>2. \A m \in 1..Len(L) : L[m].is = "entry"
  <2>1. \A x \in Entries(d) : x.is = "entry"
    BY Kinds DEF Entries
  <2>2. \A m \in 1..Len(L) : L[m] \in Entries(d)
    <3> HIDE DEF L
    <3> QED BY <1>1, ElementOfSeq
  <2> QED BY <2>1, <2>2
<1> HIDE DEF L, I
<1>3. \A m \in 2..(e - 1) : I[m].is = "entry"
  <2>1. TAKE m \in 2..(e - 1)
  <2>2. m - 1 \in 1..Len(L) /\ (m - 1) + 1 = m
    BY <1>1
  <2>3. I[(m - 1) + 1] = L[m - 1]
    BY <1>1, <2>2
  <2> QED BY <2>2, <2>3, <1>2
<1>4. e \in ends
  BY <1>1, <1>3, Kinds
<1>5. \A n \in ends : n = e
  <2>1. TAKE n \in ends
  <2>2. n \in 2..(Len(L) + 3) /\ I[n].is = "sentinel" /\ \A m \in 2..(n - 1) : I[m].is = "entry"
    BY <1>1
  <2>3. n # Len(L) + 3
    BY <2>2, <1>1, Kinds
  <2>4. ~(n < e)
    BY <2>2, <1>1, <1>3
  <2> QED BY <2>2, <2>3, <2>4, <1>1
<1>6. EndOfEntries(I) = e
  <2> HIDE DEF e
  <2> QED BY <1>4, <1>5 DEF EndOfEntries
<1> QED BY <1>1, <1>2, <1>6 DEF L, I

\* What a restore makes of an image is the database it was made of: no entry is
\* dropped, doubled or given to another key.
LEMMA RebuildOfImage ==
    ASSUME NEW d \in Databases, NEW h \in AnyHash
    PROVE  Rebuild(Image(d, h)) = d
<1> DEFINE L == ListEntriesRaw(d)
           I == Image(d, h)
           Of(key) == {n \in 2..(EndOfEntries(I) - 1) : I[n].key = key}
           Value(key, absent) == IF Of(key) = {} THEN absent ELSE I[CHOOSE n \in Of(key) : TRUE].val
<1>1. /\ L \in Seq(Entries(d)) /\ Len(L) \in Nat
      /\ \A m \in 1..Len(L) : I[m + 1] = L[m]
  BY ImageShape
<1>2. EndOfEntries(I) - 1 = Len(L) + 1
  BY <1>1, EndOfImage
<1>3. /\ \A x \in Entries(d) : \E n \in 1..Len(L) : L[n] = x
      /\ \A n \in 1..Len(L) : L[n] \in Entries(d)
  <2>1. \A x \in Entries(d) : \E n \in 1..Len(L) : L[n] = x
    BY EntriesFinite, Enumerated DEF ListEntriesRaw
  <2> HIDE DEF L
  <2> QED BY <1>1, <2>1, ElementOfSeq
<1> HIDE DEF L, I
<1>4. \A key : \A n \in Of(key) : I[n] \in Entries(d) /\ I[n].key = key
  <2>1. SUFFICES ASSUME NEW key, NEW n \in Of(key) PROVE I[n] \in Entries(d)
    OBVIOUS
  <2>2. n - 1 \in 1..Len(L) /\ (n - 1) + 1 = n
    BY <1>1, <1>2
  <2>3. I[(n - 1) + 1] = L[n - 1]
    BY <1>1, <2>2
  <2> QED BY <2>2, <2>3, <1>3
<1>5. \A x \in Entries(d) : Of(x.key) # {}
  <2>1. SUFFICES ASSUME NEW x \in Entries(d) PROVE Of(x.key) # {}
    OBVIOUS
  <2>2. PICK n \in 1..Len(L) : L[n] = x
    BY <1>3
  <2>3. I[n + 1] = x /\ n + 1 \in 2..(EndOfEntries(I) - 1)
    BY <1>1, <1>2, <2>2
  <2> QED BY <2>3
<1>6. \A k \in Keys : Value(k, NoValue) = d.rows[k]
  <2>1. SUFFICES ASSUME NEW k \in Keys PROVE Value(k, NoValue) = d.rows[k]
    OBVIOUS
  <2>2. \A x \in Entries(d) : x.key = k => x.val = d.rows[k] /\ d.rows[k] # NoValue
    BY Kinds, BackupAssumption DEF Entries
  <2>3. CASE d.rows[k] = NoValue
    BY <2>2, <2>3, <1>4
  <2>4. CASE d.rows[k] # NoValue
    <3>1. Entry(k, d.rows[k]) \in Entries(d) /\ Entry(k, d.rows[k]).key = k
      BY <2>4, Kinds DEF Entries
    <3>2. Of(k) # {}
      BY <3>1, <1>5
    <3>3. (CHOOSE n \in Of(k) : TRUE) \in Of(k)
      BY <3>2
    <3>4. I[CHOOSE n \in Of(k) : TRUE].val = d.rows[k]
      BY <3>3, <1>4, <2>2
    <3> QED BY <3>2, <3>4
  <2> QED BY <2>3, <2>4
<1>7. Value(Ledger, {}) = d.ledger
  <2>1. \A x \in Entries(d) : x.key = Ledger => x.val = d.ledger /\ d.ledger # {}
    BY Kinds, BackupAssumption DEF Entries
  <2>2. CASE d.ledger = {}
    BY <2>1, <2>2, <1>4
  <2>3. CASE d.ledger # {}
    <3>1. Entry(Ledger, d.ledger) \in Entries(d) /\ Entry(Ledger, d.ledger).key = Ledger
      BY <2>3, Kinds DEF Entries
    <3>2. Of(Ledger) # {}
      BY <3>1, <1>5
    <3>3. (CHOOSE n \in Of(Ledger) : TRUE) \in Of(Ledger)
      BY <3>2
    <3>4. I[CHOOSE n \in Of(Ledger) : TRUE].val = d.ledger
      BY <3>3, <1>4, <2>1
    <3> QED BY <3>2, <3>4
  <2> QED BY <2>2, <2>3
<1>8. Rebuild(I) = [rows |-> [k \in Keys |-> Value(k, NoValue)], ledger |-> Value(Ledger, {})]
  BY DEF Rebuild
<1>9. Rebuild(I) = [rows |-> [k \in Keys |-> d.rows[k]], ledger |-> d.ledger]
  <2> HIDE DEF Of, Value
  <2> QED BY <1>6, <1>7, <1>8
<1> QED BY <1>9 DEF I, Databases

\* Whatever frames a file holds, a restore makes a database of them.
LEMMA RebuildType ==
    ASSUME NEW f \in Seq(Frames)
    PROVE  Rebuild(f) \in Databases
<1> DEFINE e == EndOfEntries(f)
           Of(key) == {n \in 2..(e - 1) : f[n].key = key}
           Value(key, absent) == IF Of(key) = {} THEN absent ELSE f[CHOOSE n \in Of(key) : TRUE].val
           ends == {n \in 2..Len(f) : /\ f[1].is = "header"
                                      /\ f[n].is = "sentinel"
                                      /\ \A m \in 2..(n - 1) : f[m].is = "entry"}
<1>1. e = 0 \/ e \in ends
  BY DEF EndOfEntries
<1>2. \A m \in 2..(e - 1) : f[m].is = "entry" /\ f[m] \in Frames
  BY <1>1
<1> HIDE DEF e
<1>3. \A key : \A n \in Of(key) : f[n].is = "entry" /\ f[n] \in Frames /\ f[n].key = key
  BY <1>2
<1>4. \A x \in Frames : x.is = "entry" =>
          /\ x.key \in Keys => x.val \in Vals
          /\ x.key = Ledger => x.val \in SUBSET Versions
  BY BackupAssumption DEF Frames, Sentinel, Junk
<1>5. \A k \in Keys : Value(k, NoValue) \in Vals \cup {NoValue}
  <2>1. SUFFICES ASSUME NEW k \in Keys, Of(k) # {}
                 PROVE  f[CHOOSE n \in Of(k) : TRUE].val \in Vals
    OBVIOUS
  <2>2. (CHOOSE n \in Of(k) : TRUE) \in Of(k)
    BY <2>1
  <2> QED BY <2>1, <2>2, <1>3, <1>4
<1>6. Value(Ledger, {}) \in SUBSET Versions
  <2>1. CASE Of(Ledger) = {}
    BY <2>1
  <2>2. CASE Of(Ledger) # {}
    <3>1. (CHOOSE n \in Of(Ledger) : TRUE) \in Of(Ledger)
      BY <2>2
    <3> QED BY <2>2, <3>1, <1>3, <1>4
  <2> QED BY <2>1, <2>2
<1>7. Rebuild(f) = [rows |-> [k \in Keys |-> Value(k, NoValue)], ledger |-> Value(Ledger, {})]
  BY DEF Rebuild, e
<1> HIDE DEF Of, Value
<1> QED BY <1>5, <1>6, <1>7 DEF Databases
-----------------------------------------------------------------------------
(* Types.                                                                  *)

Dirs    == [{Path, Tmp} -> Inodes \cup {NoFile}]
Stages  == {x \in [at : {"idle", "created", "writing", "synced"}, ino : Inodes \cup {NoFile},
                   todo : Seq(Frames), pos : Nat] :
               /\ x.pos <= Len(x.todo)
               /\ x.at # "idle" => x.ino \in Inodes
               /\ x.at = "created" => x.pos = 0}
Reads   == [at : {"idle", "checked"}, ino : Inodes \cup {NoFile},
            overwrite : BOOLEAN, skip : BOOLEAN, got : Databases]
Origins == [db : Databases, hash : AnyHash]

\* The types that every step needs: files and what is left to write are
\* sequences of frames.
TypeInv ==
    /\ schema \in AnyHash
    /\ db \in Databases
    /\ dir \in Dirs
    /\ dir \in pastDirs
    /\ pastDirs \subseteq Dirs
    /\ data \in [Inodes -> Seq(Frames)]
    /\ synced \subseteq Inodes
    /\ wr \in [Writers -> Stages]
    /\ rd \in [Readers -> Reads]
    /\ origin \in [Inodes -> Origins]
    /\ damaged \subseteq Inodes

LEMMA TypeInvTypeOK == TypeInv => TypeOK
<1> SUFFICES ASSUME TypeInv PROVE TypeOK
  OBVIOUS
<1>1. \A w \in Writers :
          /\ wr[w].at \in {"idle", "created", "writing", "synced"}
          /\ wr[w].ino \in Inodes \cup {NoFile}
          /\ wr[w].pos \in 0..Len(wr[w].todo)
  <2>1. TAKE w \in Writers
  <2>2. wr[w] \in Stages
    BY DEF TypeInv
  <2>3. wr[w].todo \in Seq(Frames) /\ wr[w].pos \in Nat /\ wr[w].pos <= Len(wr[w].todo)
    BY <2>2 DEF Stages
  <2>4. Len(wr[w].todo) \in Nat
    BY <2>3, LenProperties
  <2> QED BY <2>2, <2>3, <2>4 DEF Stages
<1> QED BY <1>1 DEF TypeInv, TypeOK, AnyHash, Dirs, Reads, Origins

LEMMA Values ==
    /\ Empty \in Databases
    /\ NoOrigin \in Origins
    /\ NoBackup \in Stages /\ NoBackup.pos = 0 /\ NoBackup.at = "idle" /\ Len(NoBackup.todo) = 0
    /\ NoBackup.ino = NoFile
    /\ NoRestore \in Reads /\ NoRestore.at = "idle"
<1>1. Empty \in Databases
  BY DEF Empty, Databases
<1>2. <<>> \in Seq(Frames) /\ Len(<<>>) = 0
  BY EmptySeq
<1> QED BY <1>1, <1>2 DEF NoOrigin, Origins, AnyHash, NoBackup, Stages, NoRestore, Reads

\* The sequence a file holds is a function on its positions.
LEMMA Positions ==
    ASSUME NEW f \in Seq(Frames)
    PROVE  Len(f) \in Nat /\ DOMAIN f = 1..Len(f) /\ \A n \in 1..Len(f) : f[n] \in Frames
  BY LenProperties, ElementOfSeq

\* An image is a sequence of frames.
LEMMA ImageType ==
    ASSUME NEW d \in Databases, NEW h \in AnyHash
    PROVE  Image(d, h) \in Seq(Frames) /\ Len(Image(d, h)) \in Nat \ {0}
<1>1. Image(d, h) \in Seq(Frames) /\ Len(ListEntriesRaw(d)) \in Nat
      /\ Len(Image(d, h)) = Len(ListEntriesRaw(d)) + 3
  BY ImageShape
<1> QED BY <1>1

\* Writing a frame at a position leaves a sequence of frames, with that frame there.
LEMMA WriteAtShape ==
    ASSUME NEW f \in Seq(Frames), NEW pos \in Nat \ {0}, NEW x \in Frames
    PROVE  LET g == WriteAt(f, pos, x) IN
               /\ g \in Seq(Frames)
               /\ Len(g) = IF pos > Len(f) THEN pos ELSE Len(f)
               /\ \A n \in 1..Len(g) :
                      g[n] = IF n = pos THEN x ELSE IF n <= Len(f) THEN f[n] ELSE Junk
<1> DEFINE g == WriteAt(f, pos, x)
           N == IF pos > Len(f) THEN pos ELSE Len(f)
<1>1. Len(f) \in Nat /\ \A n \in 1..Len(f) : f[n] \in Frames
  BY Positions
<1>2. N \in Nat
  BY <1>1
<1>3. g = [n \in 1..N |-> IF n = pos THEN x ELSE IF n <= Len(f) THEN f[n] ELSE Junk]
  BY DEF WriteAt
<1>4. Junk \in Frames
  BY DEF Frames
<1> HIDE DEF N
<1>5. \A n \in 1..N : (IF n = pos THEN x ELSE IF n <= Len(f) THEN f[n] ELSE Junk) \in Frames
  BY <1>1, <1>2, <1>4
<1> HIDE DEF g
<1>6. g \in [1..N -> Frames]
  BY <1>3, <1>5
<1>7. g \in Seq(Frames) /\ Len(g) = N
  BY <1>2, <1>6
<1> QED BY <1>3, <1>7 DEF g, N

\* A prefix of a file is a sequence of frames, the first ones of the file.
LEMMA PrefixShape ==
    ASSUME NEW f \in Seq(Frames), NEW n \in Nat, n <= Len(f)
    PROVE  /\ SubSeq(f, 1, n) \in Seq(Frames)
           /\ Len(SubSeq(f, 1, n)) = n
           /\ \A m \in 1..n : SubSeq(f, 1, n)[m] = f[m]
<1>1. Len(f) \in Nat /\ \A m \in 1..Len(f) : f[m] \in Frames
  BY Positions
<1>2. \A m \in 1..n : f[m] \in Frames
  BY <1>1
<1>3. 1 \in Int /\ n \in Int
  OBVIOUS
<1>4. /\ SubSeq(f, 1, n) \in Seq(Frames)
      /\ Len(SubSeq(f, 1, n)) = IF 1 <= n THEN n - 1 + 1 ELSE 0
      /\ \A m \in 1..(n - 1 + 1) : SubSeq(f, 1, n)[m] = f[1 + m - 1]
  BY <1>2, <1>3, SubSeqProperties
<1> QED BY <1>4

\* A spoiled file is a sequence of frames, not longer than it was, and holds a
\* checksum only where there was that checksum.
LEMMA SpoiledShape ==
    ASSUME NEW f \in Seq(Frames), NEW n \in DOMAIN f, NEW g \in Spoiled(f, n)
    PROVE  /\ g \in Seq(Frames) /\ Len(g) <= Len(f)
           /\ \A m \in 1..Len(g) : g[m].is = "crc" => g[m] = f[m]
<1>1. n \in 1..Len(f) /\ Len(f) \in Nat
  BY Positions
<1> DEFINE others == IF n = 1 THEN {Header(NoHash)}
                     ELSE {Sentinel} \cup {Entry(k, v) : k \in Keys, v \in Vals}
<1>2. \A x \in others : x \in Frames /\ x.is # "crc"
  <2>1. Header(NoHash) \in Frames /\ Sentinel \in Frames
        /\ \A k \in Keys, v \in Vals : Entry(k, v) \in Frames
    BY DEF Frames, Header, Entry, AnyHash
  <2> QED BY <2>1, Kinds
<1>3. g = SubSeq(f, 1, n - 1) \/ \E x \in others : g = [f EXCEPT ![n] = x]
  BY DEF Spoiled
<1> HIDE DEF others
<1>4. CASE g = SubSeq(f, 1, n - 1)
  <2>1. n - 1 \in Nat /\ n - 1 <= Len(f)
    BY <1>1
  <2>2. g \in Seq(Frames) /\ Len(g) = n - 1 /\ \A m \in 1..(n - 1) : g[m] = f[m]
    BY <1>4, <2>1, PrefixShape
  <2> QED BY <2>1, <2>2
<1>5. ASSUME NEW x \in others, g = [f EXCEPT ![n] = x]
      PROVE  /\ g \in Seq(Frames) /\ Len(g) <= Len(f)
             /\ \A m \in 1..Len(g) : g[m].is = "crc" => g[m] = f[m]
  <2>1. x \in Frames /\ x.is # "crc"
    BY <1>2
  <2>2. /\ g \in Seq(Frames) /\ Len(g) = Len(f)
        /\ \A m \in 1..Len(f) : g[m] = IF m = n THEN x ELSE f[m]
    BY <1>1, <1>5, <2>1, ExceptSeq
  <2> QED BY <1>1, <2>1, <2>2
<1> QED BY <1>3, <1>4, <1>5

LEMMA CutType ==
    ASSUME NEW f \in Seq(Frames), NEW n \in Nat
    PROVE  Prefix(f, n) \in Seq(Frames)
<1>1. Len(f) \in Nat
  BY Positions
<1>2. PICK m \in Nat : m = (IF n < Len(f) THEN n ELSE Len(f)) /\ m <= Len(f)
  BY <1>1
<1>3. SubSeq(f, 1, m) \in Seq(Frames)
  BY <1>2, PrefixShape
<1> QED BY <1>2, <1>3 DEF Prefix

LEMMA InitType == Init => TypeInv
<1> SUFFICES ASSUME Init PROVE TypeInv
  OBVIOUS
<1>1. <<>> \in Seq(Frames)
  BY EmptySeq
<1>2. data \in [Inodes -> Seq(Frames)]
  BY <1>1 DEF Init
<1>3. dir \in Dirs /\ dir \in pastDirs /\ pastDirs \subseteq Dirs
  BY DEF Init, Dirs
<1> QED BY <1>2, <1>3, Values DEF Init, TypeInv, AnyHash

\* What a backup is at, with some of its parts replaced.
LEMMA StageParts ==
    ASSUME NEW x \in Stages, NEW frames, NEW n
    PROVE  /\ [x EXCEPT !.at = "writing", !.todo = frames]
                = [at |-> "writing", ino |-> x.ino, todo |-> frames, pos |-> x.pos]
           /\ [x EXCEPT !.pos = n] = [at |-> x.at, ino |-> x.ino, todo |-> x.todo, pos |-> n]
<1>1. x \in [at : {"idle", "created", "writing", "synced"}, ino : Inodes \cup {NoFile},
             todo : Seq(Frames), pos : Nat]
  BY DEF Stages
<1>2. [x EXCEPT !.pos = n] = [at |-> x.at, ino |-> x.ino, todo |-> x.todo, pos |-> n]
  BY <1>1
<1>3. [x EXCEPT !.at = "writing", !.todo = frames]
          = [at |-> "writing", ino |-> x.ino, todo |-> frames, pos |-> x.pos]
  <2>1. PICK y : y = [x EXCEPT !.at = "writing"]
    OBVIOUS
  <2>2. /\ y \in [at : {"idle", "created", "writing", "synced"}, ino : Inodes \cup {NoFile},
                  todo : Seq(Frames), pos : Nat]
        /\ y.at = "writing" /\ y.ino = x.ino /\ y.pos = x.pos
    BY <1>1, <2>1
  <2>3. [y EXCEPT !.todo = frames]
            = [at |-> "writing", ino |-> x.ino, todo |-> frames, pos |-> x.pos]
    BY <2>2
  <2>4. [x EXCEPT !.at = "writing", !.todo = frames] = [y EXCEPT !.todo = frames]
    BY <2>1
  <2> QED BY <2>3, <2>4
<1> QED BY <1>2, <1>3

\* The steps of a backup keep the types.
LEMMA WriterType ==
    ASSUME TypeInv, NEW w \in Writers,
           \/ \E i \in Inodes : CreateTmp(w, i)
           \/ ListEntries(w) \/ WriteFrame(w) \/ Sync(w) \/ Rename(w) \/ FailBackup(w)
    PROVE  TypeInv'
<1> USE DEF TypeInv
<1>0. /\ wr[w] \in Stages /\ wr[w].todo \in Seq(Frames)
      /\ wr[w].pos \in Nat /\ Len(wr[w].todo) \in Nat /\ wr[w].pos <= Len(wr[w].todo)
      /\ wr[w].at # "idle" => wr[w].ino \in Inodes
  <2>1. wr[w] \in Stages
    OBVIOUS
  <2>2. wr[w].todo \in Seq(Frames)
    BY <2>1 DEF Stages
  <2>3. Len(wr[w].todo) \in Nat
    BY <2>2, Positions
  <2> QED BY <2>1, <2>2, <2>3 DEF Stages
<1>1. ASSUME NEW i \in Inodes, CreateTmp(w, i) PROVE TypeInv'
  <2>1. <<>> \in Seq(Frames)
    BY EmptySeq
  <2>2. data' \in [Inodes -> Seq(Frames)]
    BY <1>1, <2>1 DEF CreateTmp
  <2>3. [NoBackup EXCEPT !.at = "created", !.ino = i] \in Stages
    BY Values DEF Stages
  <2>4. wr' \in [Writers -> Stages]
    BY <1>1, <2>3 DEF CreateTmp
  <2>5. dir' \in Dirs /\ dir' \in pastDirs' /\ pastDirs' \subseteq Dirs
    BY <1>1 DEF CreateTmp, Dirs
  <2>6. origin' \in [Inodes -> Origins]
    BY <1>1, Values DEF CreateTmp
  <2> QED BY <1>1, <2>2, <2>4, <2>5, <2>6 DEF CreateTmp
<1>2. CASE ListEntries(w)
  <2> DEFINE I == Image(db, schema)
             x == [wr[w] EXCEPT !.at = "writing", !.todo = I]
  <2>1. I \in Seq(Frames) /\ Len(I) \in Nat
    BY ImageType
  <2>2. wr' = [wr EXCEPT ![w] = x] /\ wr[w].at = "created"
    BY <1>2 DEF ListEntries
  <2> HIDE DEF I
  <2>3. x = [at |-> "writing", ino |-> wr[w].ino, todo |-> I, pos |-> wr[w].pos]
    BY <1>0, StageParts
  <2>4. wr[w].pos = 0 /\ wr[w].ino \in Inodes
    BY <1>0, <2>2 DEF Stages
  <2>5. x \in Stages
    BY <2>1, <2>3, <2>4 DEF Stages
  <2>6. wr' \in [Writers -> Stages]
    BY <2>2, <2>5
  <2>7. [db |-> db, hash |-> schema] \in Origins
    BY DEF Origins
  <2>8. origin' \in [Inodes -> Origins]
    BY <1>2, <2>7 DEF ListEntries
  <2> QED BY <1>2, <2>6, <2>8 DEF ListEntries
<1>3. CASE WriteFrame(w)
  <2> DEFINE pos == wr[w].pos + 1
             i == wr[w].ino
             x == [wr[w] EXCEPT !.pos = pos]
  <2>1. wr[w].at = "writing" /\ i \in Inodes /\ pos \in 1..Len(wr[w].todo) /\ pos \in Nat \ {0}
    BY <1>0, <1>3 DEF WriteFrame
  <2>2. wr[w].todo[pos] \in Frames
    BY <1>0, <2>1, Positions
  <2>3. x \in Stages
    <3>1. x = [at |-> "writing", ino |-> i, todo |-> wr[w].todo, pos |-> pos]
      BY <1>0, <2>1, StageParts
    <3> HIDE DEF x, pos, i
    <3>2. pos \in Nat /\ pos <= Len(wr[w].todo)
      BY <1>0, <2>1
    <3> QED BY <1>0, <2>1, <3>1, <3>2 DEF Stages
  <2>4. wr' = [wr EXCEPT ![w] = x]
    BY <1>3 DEF WriteFrame
  <2>5. wr' \in [Writers -> Stages]
    BY <2>3, <2>4
  <2>6. WriteAt(data[i], pos, wr[w].todo[pos]) \in Seq(Frames)
    BY <2>1, <2>2, WriteAtShape
  <2>7. data' = [data EXCEPT ![i] = WriteAt(data[i], pos, wr[w].todo[pos])]
    BY <1>3 DEF WriteFrame
  <2>8. data' \in [Inodes -> Seq(Frames)]
    BY <2>6, <2>7
  <2> QED BY <1>3, <2>5, <2>8 DEF WriteFrame
<1>4. CASE Sync(w)
  <2> DEFINE x == [wr[w] EXCEPT !.at = "synced"]
  <2>1. wr[w].at = "writing" /\ wr[w].ino \in Inodes
    BY <1>0, <1>4 DEF Sync, Written
  <2>2. x \in Stages
    BY <1>0, <2>1 DEF Stages
  <2>3. wr' = [wr EXCEPT ![w] = x]
    BY <1>4 DEF Sync
  <2>4. wr' \in [Writers -> Stages]
    BY <2>2, <2>3
  <2>5. synced' \subseteq Inodes
    BY <1>4, <2>1 DEF Sync
  <2> QED BY <1>4, <2>4, <2>5 DEF Sync
<1>5. CASE Rename(w)
  <2>1. dir' \in Dirs /\ dir' \in pastDirs' /\ pastDirs' \subseteq Dirs
    BY <1>5 DEF Rename, Dirs
  <2> QED BY <1>5, <2>1, Values DEF Rename
<1>6. CASE FailBackup(w)
  BY <1>6, Values DEF FailBackup, fileVars
<1> QED BY <1>1, <1>2, <1>3, <1>4, <1>5, <1>6

\* Restores, the users of the database and the disk keep the types.
LEMMA OtherType ==
    ASSUME TypeInv,
           \/ \E r \in Readers :
                  \/ \E overwrite, skip \in BOOLEAN : ReadBackup(r, overwrite, skip)
                  \/ ApplyBackup(r)
           \/ \E k \in Keys, v \in Vals \cup {NoValue} : Commit(k, v)
           \/ \E all \in SUBSET Versions : Migrate(all)
           \/ FlushDirectory
           \/ \E n \in 1..(Cardinality(Keys) + 4) : Damage(n)
           \/ Crash
    PROVE  TypeInv'
<1> USE DEF TypeInv
<1>1. ASSUME NEW r \in Readers, NEW overwrite \in BOOLEAN, NEW skip \in BOOLEAN,
             ReadBackup(r, overwrite, skip)
      PROVE  TypeInv'
  <2>1. dir[Path] \in Inodes
    BY <1>1 DEF ReadBackup, Dirs
  <2>2. Rebuild(data[dir[Path]]) \in Databases
    BY <2>1, RebuildType
  <2>3. [at |-> "checked", ino |-> dir[Path], got |-> Rebuild(data[dir[Path]]),
         overwrite |-> overwrite, skip |-> skip] \in Reads
    BY <2>1, <2>2 DEF Reads
  <2>4. rd' \in [Readers -> Reads]
    BY <1>1, <2>3 DEF ReadBackup
  <2> QED BY <1>1, <2>4 DEF ReadBackup, fileVars
<1>2. ASSUME NEW r \in Readers, ApplyBackup(r) PROVE TypeInv'
  <2>1. rd' \in [Readers -> Reads]
    BY <1>2, Values DEF ApplyBackup
  <2>2. db' \in Databases
    BY <1>2 DEF ApplyBackup, Reads
  <2> QED BY <1>2, <2>1, <2>2 DEF ApplyBackup, fileVars
<1>3. ASSUME NEW k \in Keys, NEW v \in Vals \cup {NoValue}, Commit(k, v) PROVE TypeInv'
  <2>1. db' \in Databases
    BY <1>3 DEF Commit, Databases
  <2> QED BY <1>3, <2>1 DEF Commit, fileVars
<1>4. ASSUME NEW all \in SUBSET Versions, Migrate(all) PROVE TypeInv'
  <2>1. db' \in Databases
    BY <1>4 DEF Migrate, Databases
  <2> QED BY <1>4, <2>1 DEF Migrate, fileVars
<1>5. CASE FlushDirectory
  <2>1. <<>> \in Seq(Frames)
    BY EmptySeq
  <2> DEFINE named == {dir[Path], dir[Tmp]} \cup {rd[r].ino : r \in Readers}
                      \cup {wr[w].ino : w \in Writers}
  <2>2. /\ origin' = [i \in Inodes |-> IF i \in named THEN origin[i] ELSE NoOrigin]
        /\ damaged' = damaged \cap named
        /\ data' = [i \in Inodes |-> IF i \in named THEN data[i] ELSE <<>>]
        /\ synced' = synced \cup (Inodes \ named)
    BY <1>5 DEF FlushDirectory, Reclaim
  <2> HIDE DEF named
  <2>3. origin' \in [Inodes -> Origins]
    BY <2>2, Values
  <2>4. data' \in [Inodes -> Seq(Frames)]
    BY <2>1, <2>2
  <2> QED BY <1>5, <2>2, <2>3, <2>4 DEF FlushDirectory
<1>6. ASSUME NEW n \in 1..(Cardinality(Keys) + 4), Damage(n) PROVE TypeInv'
  <2> DEFINE i == dir[Path]
             f == data[i]
  <2>1. i \in Inodes /\ n \in DOMAIN f
    BY <1>6 DEF Damage, Dirs
  <2>2. f \in Seq(Frames)
    BY <2>1
  <2>3. PICK g \in Spoiled(f, n) : data' = [data EXCEPT ![i] = g]
    BY <1>6 DEF Damage
  <2>4. g \in Seq(Frames)
    BY <2>1, <2>2, <2>3, SpoiledShape
  <2>5. data' \in [Inodes -> Seq(Frames)]
    BY <2>3, <2>4
  <2> QED BY <1>6, <2>1, <2>5 DEF Damage
<1>7. CASE Crash
  <2>1. <<>> \in Seq(Frames)
    BY EmptySeq
  <2> DEFINE named == {dir'[Path], dir'[Tmp]}
  <2>2. /\ origin' = [i \in Inodes |-> IF i \in named THEN origin[i] ELSE NoOrigin]
        /\ damaged' = damaged \cap named
    BY <1>7 DEF Crash, Reclaim
  <2>3. PICK cut \in [(Inodes \cap named) \ synced -> 0..(Cardinality(Keys) + 4)] :
            data' = [i \in Inodes |->
                        IF i \notin named THEN <<>>
                        ELSE IF i \in synced THEN data[i] ELSE Prefix(data[i], cut[i])]
    BY <1>7 DEF Crash
  <2>4. Cardinality(Keys) \in Nat
    BY BackupAssumption, FS_CardinalityType
  <2> HIDE DEF named
  <2>5. \A i \in (Inodes \cap named) \ synced : Prefix(data[i], cut[i]) \in Seq(Frames)
    <3>1. TAKE i \in (Inodes \cap named) \ synced
    <3>2. data[i] \in Seq(Frames) /\ cut[i] \in Nat
      BY <2>4
    <3> QED BY <3>2, CutType
  <2>6. data' \in [Inodes -> Seq(Frames)]
    BY <2>1, <2>3, <2>5
  <2>7. origin' \in [Inodes -> Origins]
    BY <2>2, Values
  <2>8. wr' \in [Writers -> Stages] /\ rd' \in [Readers -> Reads]
    BY <1>7, Values DEF Crash
  <2>9. dir' \in Dirs /\ dir' \in pastDirs' /\ pastDirs' \subseteq Dirs
    BY <1>7 DEF Crash
  <2> QED BY <1>7, <2>2, <2>6, <2>7, <2>8, <2>9 DEF Crash, AnyHash
<1> QED BY <1>1, <1>2, <1>3, <1>4, <1>5, <1>6, <1>7

LEMMA TypeStep == TypeInv /\ [Next]_vars => TypeInv'
<1> SUFFICES ASSUME TypeInv, [Next]_vars PROVE TypeInv'
  OBVIOUS
<1>1. CASE Next
  BY <1>1, WriterType, OtherType DEF Next
<1>2. CASE UNCHANGED vars
  BY <1>2 DEF vars, fileVars, TypeInv
<1> QED BY <1>1, <1>2

\* Every variable has its type, whoever writes, restores or damages files.
THEOREM TypeCorrect == Spec => []TypeOK
<1>1. Spec => []TypeInv
  BY InitType, TypeStep, PTL DEF Spec
<1> QED BY <1>1, TypeInvTypeOK, PTL

\* No run of a migration is forgotten but by a restore: whatever runners,
\* backups, restores and crashes come between.
THEOREM LedgerKept == Spec => LedgerKeepsRuns
<1>1. TypeInv /\ [Next]_vars =>
          [db.ledger \subseteq db'.ledger \/ \E r \in Readers : Restores(r)]_vars
  <2> SUFFICES ASSUME TypeInv, Next, ~(db.ledger \subseteq db'.ledger)
               PROVE  \E r \in Readers : Restores(r)
    OBVIOUS
  <2>1. \/ UNCHANGED db
        \/ \E k \in Keys, v \in Vals \cup {NoValue} : Commit(k, v)
        \/ \E all \in SUBSET Versions : Migrate(all)
        \/ \E r \in Readers : ApplyBackup(r)
    <3>1. ASSUME NEW w \in Writers, \/ \E i \in Inodes : CreateTmp(w, i)
                                    \/ ListEntries(w) \/ WriteFrame(w) \/ Sync(w)
                                    \/ Rename(w) \/ FailBackup(w)
          PROVE  UNCHANGED db
      BY <3>1 DEF CreateTmp, ListEntries, WriteFrame, Sync, Rename, FailBackup
    <3>2. ASSUME NEW r \in Readers, NEW overwrite \in BOOLEAN, NEW skip \in BOOLEAN,
                 ReadBackup(r, overwrite, skip)
          PROVE  UNCHANGED db
      BY <3>2 DEF ReadBackup
    <3>3. FlushDirectory \/ Crash => UNCHANGED db
      BY DEF FlushDirectory, Crash
    <3>4. \A n : Damage(n) => UNCHANGED db
      BY DEF Damage
    <3> QED BY <3>1, <3>2, <3>3, <3>4 DEF Next
  <2>2. ASSUME NEW k \in Keys, NEW v \in Vals \cup {NoValue}, Commit(k, v)
        PROVE  db'.ledger = db.ledger
    BY <2>2 DEF Commit, TypeInv, Databases
  <2>3. ASSUME NEW all \in SUBSET Versions, Migrate(all)
        PROVE  db.ledger \subseteq db'.ledger
    BY <2>3 DEF Migrate, TypeInv, Databases
  <2>4. PICK r \in Readers : ApplyBackup(r)
    BY <2>1, <2>2, <2>3
  <2>5. rd'[r] = NoRestore
    BY <2>4 DEF ApplyBackup, TypeInv
  <2> QED BY <2>4, <2>5 DEF ApplyBackup, Restores
<1>2. Spec => []TypeInv
  BY InitType, TypeStep, PTL DEF Spec
<1> QED BY <1>1, <1>2, PTL DEF Spec, LedgerKeepsRuns
-----------------------------------------------------------------------------
(* One backup at a time.                                                   *)

\* No two backups are ever in progress: nothing in backup_to_path makes it so.
OneWriter == \A u, v \in Writers : u = v

ImageOf(i) == Image(origin[i].db, origin[i].hash)

\* What is left of an image whose frames were changed or cut off: a checksum
\* is found nowhere but where the checksum of the image was.
Tampered(f, image) ==
    /\ Len(f) <= Len(image)
    /\ \A n \in 1..Len(f) : f[n].is = "crc" => n = Len(image) /\ f[n] = image[n]

\* Whatever directory a crash brings back, the file at <path> is complete and
\* on stable storage, or somebody else changed a complete one.
PathsComplete ==
    \A d \in pastDirs : d[Path] # NoFile =>
        /\ d[Path] \in synced
        /\ IF d[Path] \in damaged THEN Tampered(data[d[Path]], ImageOf(d[Path]))
           ELSE data[d[Path]] = ImageOf(d[Path])

\* The temporary file is never one that a crash may bring back as the backup.
Apart ==
    \A d \in pastDirs : d[Path] # NoFile => d[Tmp] # d[Path] /\ dir[Tmp] # d[Path]

\* The temporary file of a backup in progress has what was written so far.
Underway ==
    \A w \in Writers : Writing(w) =>
        LET i == wr[w].ino IN
            /\ i \in Inodes /\ dir[Tmp] = i /\ i \notin damaged
            /\ wr[w].at = "created" => data[i] = <<>>
            /\ wr[w].at = "writing" =>
                   /\ wr[w].todo = ImageOf(i)
                   /\ Len(data[i]) = wr[w].pos
                   /\ \A n \in 1..wr[w].pos : data[i][n] = wr[w].todo[n]
            /\ wr[w].at = "synced" => data[i] = ImageOf(i) /\ i \in synced

\* A restore holds the whole of the backup it read, and nobody writes into
\* that file.
ReadersKnow ==
    \A r \in Readers : Reading(r) =>
        LET o == origin[rd[r].ino] IN
            /\ rd[r].ino \in Inodes /\ rd[r].ino # dir[Tmp]
            /\ rd[r].got = o.db
            /\ rd[r].skip \/ NoHash \in {o.hash, schema} \/ o.hash = schema

Safe == PathsComplete /\ Apart /\ Underway /\ ReadersKnow

\* An image has one checksum, at its end.
LEMMA ImageChecksum ==
    ASSUME NEW d \in Databases, NEW h \in AnyHash
    PROVE  LET I == Image(d, h) IN
               /\ I \in Seq(Frames)
               /\ \A n \in 1..Len(I) : I[n].is = "crc" => n = Len(I)
<1> DEFINE L == ListEntriesRaw(d)
           I == Image(d, h)
<1>1. /\ I \in Seq(Frames) /\ Len(L) \in Nat /\ Len(I) = Len(L) + 3
      /\ I[1] = Header(h) /\ I[Len(L) + 2] = Sentinel
  BY ImageShape
<1>2. \A m \in 1..Len(L) : I[m + 1].is = "entry"
  BY EndOfImage
<1> HIDE DEF I, L
<1>3. ASSUME NEW n \in 1..Len(I), I[n].is = "crc" PROVE n = Len(I)
  <2>1. n # 1 /\ n # Len(L) + 2
    BY <1>1, <1>3, Kinds
  <2>2. CASE n \in 2..(Len(L) + 1)
    <3>1. n - 1 \in 1..Len(L) /\ (n - 1) + 1 = n
      BY <1>1, <2>2
    <3>2. I[(n - 1) + 1].is = "entry"
      BY <1>2, <3>1
    <3> QED BY <3>1, <3>2, <1>3
  <2> QED BY <1>1, <2>1, <2>2
<1> QED BY <1>1, <1>3 DEF I

\* A file that was changed is refused: its checksum agrees only with the whole image.
LEMMA WholeOrRefused ==
    ASSUME NEW f \in Seq(Frames), NEW d \in Databases, NEW h \in AnyHash,
           Tampered(f, Image(d, h)), Intact(f)
    PROVE  f = Image(d, h)
<1> DEFINE I == Image(d, h)
           B == Body(d, h)
           e == EndOfEntries(f)
           ends == {n \in 2..Len(f) : /\ f[1].is = "header"
                                      /\ f[n].is = "sentinel"
                                      /\ \A m \in 2..(n - 1) : f[m].is = "entry"}
<1>1. /\ I \in Seq(Frames) /\ B \in Seq(Frames) /\ Len(I) = Len(B) + 1
      /\ I[Len(B) + 1] = Crc(B) /\ Len(B) \in Nat
      /\ \A m \in 1..Len(B) : I[m] = B[m]
  BY ImageShape
<1>2. e > 0 /\ e < Len(f) /\ f[e + 1] = Crc(SubSeq(f, 1, e))
  BY DEF Intact
<1>3. e = 0 \/ e \in ends
  BY DEF EndOfEntries
<1>4. Len(f) \in Nat
  BY Positions
<1> HIDE DEF e
<1>5. e \in Nat /\ e + 1 \in 1..Len(f)
  BY <1>2, <1>3, <1>4
<1>6. f[e + 1].is = "crc"
  BY <1>2, Kinds
<1> HIDE DEF I, B, ends
<1>7. Len(f) <= Len(I) /\ e + 1 = Len(I) /\ f[e + 1] = I[e + 1]
  BY <1>5, <1>6 DEF Tampered, I
<1>8. SubSeq(f, 1, e) = B /\ e = Len(B) /\ Len(f) = Len(I)
  <2>1. Crc(SubSeq(f, 1, e)) = Crc(B)
    BY <1>1, <1>2, <1>5, <1>7
  <2>2. \A s, t : Crc(s) = Crc(t) => s = t
    BY Kinds
  <2>3. SubSeq(f, 1, e) = B
    BY <2>1, <2>2, Zenon
  <2> QED BY <2>3, <1>1, <1>4, <1>5, <1>7
<1>9. \A m \in 1..e : SubSeq(f, 1, e)[m] = f[m]
  BY <1>2, <1>5, PrefixShape
<1>10. \A m \in 1..Len(f) : f[m] = I[m]
  BY <1>1, <1>5, <1>7, <1>8, <1>9
<1>11. f = I
  BY <1>1, <1>8, <1>10, SeqEqual
<1> QED BY <1>11 DEF I

LEMMA InitSafe == Init => Safe
<1> SUFFICES ASSUME Init PROVE Safe
  OBVIOUS
<1>1. \A w \in Writers : ~Writing(w)
  BY Values DEF Init, Writing
<1>2. \A r \in Readers : ~Reading(r)
  BY Values DEF Init, Reading
<1>3. pastDirs = {dir} /\ dir[Path] = NoFile
  BY DEF Init
<1> QED BY <1>1, <1>2, <1>3 DEF Safe, PathsComplete, Apart, Underway, ReadersKnow

\* The file a directory names is typed.
LEMMA Named ==
    ASSUME TypeInv
    PROVE  /\ dir \in pastDirs
           /\ \A d \in pastDirs : /\ d[Path] # NoFile => d[Path] \in Inodes
                                  /\ d[Tmp] # NoFile => d[Tmp] \in Inodes
           /\ \A i \in Inodes : /\ data[i] \in Seq(Frames)
                                /\ origin[i].db \in Databases /\ origin[i].hash \in AnyHash
                                /\ ImageOf(i) \in Seq(Frames)
           /\ NoFile \notin Inodes
<1>1. \A i \in Inodes : /\ data[i] \in Seq(Frames)
                        /\ origin[i].db \in Databases /\ origin[i].hash \in AnyHash
  BY DEF TypeInv, Origins
<1>2. \A i \in Inodes : ImageOf(i) \in Seq(Frames)
  BY <1>1, ImageType DEF ImageOf
<1>3. \A d \in pastDirs : /\ d[Path] # NoFile => d[Path] \in Inodes
                          /\ d[Tmp] # NoFile => d[Tmp] \in Inodes
  BY DEF TypeInv, Dirs
<1> QED BY <1>1, <1>2, <1>3, BackupAssumption DEF TypeInv

\* File::create takes a file that no directory a crash may bring back calls the
\* backup and that no restore has read.
LEMMA CreateSafe ==
    ASSUME TypeInv, Safe, OneWriter, NEW w \in Writers, NEW i \in Inodes, CreateTmp(w, i)
    PROVE  Safe'
<1> USE DEF CreateTmp
<1>1. \A d \in pastDirs : i # d[Path]
  BY Named DEF Safe, Apart, Free
<1>2. \A r \in Readers : Reading(r) => rd[r].ino # i
  BY DEF Safe, ReadersKnow, Free
<1>3. dir'[Path] = dir[Path] /\ dir'[Tmp] = i /\ pastDirs' = pastDirs \cup {dir'}
  BY DEF TypeInv, Dirs, Path, Tmp
<1>4. \A d \in pastDirs' : \E e \in pastDirs : d[Path] = e[Path]
  BY <1>3, Named
<1>5. \A p \in Inodes \ {i} : data'[p] = data[p] /\ ImageOf(p)' = ImageOf(p)
                              /\ (p \in damaged' <=> p \in damaged)
                              /\ (p \in synced' <=> p \in synced)
  BY DEF TypeInv, ImageOf
<1>6. PathsComplete'
  BY <1>1, <1>4, <1>5, Named DEF Safe, PathsComplete
<1>7. Apart'
  BY <1>1, <1>3, Named DEF Safe, Apart
<1>8. Underway'
  <2>1. \A v \in Writers : v = w
    BY DEF OneWriter
  <2>2. wr'[w] = [NoBackup EXCEPT !.at = "created", !.ino = i]
    BY DEF TypeInv
  <2>3. wr'[w].at = "created" /\ wr'[w].ino = i
    BY <2>2 DEF NoBackup
  <2>4. data'[i] = <<>> /\ i \notin damaged'
    BY DEF TypeInv
  <2> QED BY <1>3, <2>1, <2>3, <2>4 DEF Underway
<1>9. ReadersKnow'
  <2>1. \A r \in Readers : Reading(r)' => Reading(r) /\ origin'[rd[r].ino] = origin[rd[r].ino]
    BY <1>2 DEF Safe, ReadersKnow, Reading, TypeInv
  <2> QED BY <1>2, <1>3, <2>1 DEF Safe, ReadersKnow
<1> QED BY <1>6, <1>7, <1>8, <1>9 DEF Safe

\* The listing gives the temporary file its origin; the backup at <path> and
\* the files restores have read are other files.
LEMMA ListSafe ==
    ASSUME TypeInv, Safe, OneWriter, NEW w \in Writers, ListEntries(w)
    PROVE  Safe'
<1> DEFINE i == wr[w].ino
<1>1. /\ wr[w].at = "created"
      /\ wr' = [wr EXCEPT ![w] = [wr[w] EXCEPT !.at = "writing", !.todo = Image(db, schema)]]
      /\ origin' = [origin EXCEPT ![i] = [db |-> db, hash |-> schema]]
      /\ UNCHANGED <<schema, db, dir, pastDirs, data, synced, rd, damaged>>
  BY DEF ListEntries
<1>2. i \in Inodes /\ dir[Tmp] = i /\ i \notin damaged /\ data[i] = <<>> /\ wr[w].pos = 0
  BY <1>1 DEF Safe, Underway, Writing, TypeInv, Stages
<1>3. \A p \in Inodes \ {i} : ImageOf(p)' = ImageOf(p) /\ origin'[p] = origin[p]
  BY <1>1 DEF ImageOf, TypeInv
<1>4. ImageOf(i)' = Image(db, schema)
  BY <1>1, <1>2 DEF ImageOf, TypeInv
<1>5. PathsComplete'
  BY <1>1, <1>2, <1>3, Named DEF Safe, PathsComplete, Apart
<1>6. Apart'
  BY <1>1 DEF Safe, Apart
<1>7. Underway'
  <2>1. \A v \in Writers : v = w
    BY DEF OneWriter
  <2>2. wr'[w] = [at |-> "writing", ino |-> i, todo |-> Image(db, schema), pos |-> 0]
    BY <1>1, <1>2, StageParts DEF TypeInv
  <2>3. Len(data[i]) = 0
    BY <1>2, EmptySeq
  <2> QED BY <1>1, <1>2, <1>4, <2>1, <2>2, <2>3 DEF Underway
<1>8. ReadersKnow'
  BY <1>1, <1>2, <1>3 DEF Safe, ReadersKnow, Reading
<1> QED BY <1>5, <1>6, <1>7, <1>8 DEF Safe

\* A frame goes to the end of the temporary file.
LEMMA WriteSafe ==
    ASSUME TypeInv, Safe, OneWriter, NEW w \in Writers, WriteFrame(w)
    PROVE  Safe'
<1> DEFINE i == wr[w].ino
           t == wr[w].todo
           pos == wr[w].pos + 1
<1>1. /\ wr[w].at = "writing" /\ wr[w].pos < Len(t)
      /\ data' = [data EXCEPT ![i] = WriteAt(data[i], pos, t[pos])]
      /\ wr' = [wr EXCEPT ![w] = [wr[w] EXCEPT !.pos = pos]]
      /\ synced' = synced \ {i}
      /\ UNCHANGED <<schema, db, dir, pastDirs, rd, origin, damaged>>
  BY DEF WriteFrame
<1>2. /\ i \in Inodes /\ dir[Tmp] = i /\ i \notin damaged
      /\ t = ImageOf(i) /\ Len(data[i]) = wr[w].pos
      /\ \A n \in 1..wr[w].pos : data[i][n] = t[n]
  BY <1>1 DEF Safe, Underway, Writing
<1>3. wr[w] \in Stages /\ t \in Seq(Frames) /\ wr[w].pos \in Nat /\ Len(t) \in Nat
  BY <1>2, Named, Positions DEF TypeInv, Stages
<1>4. PathsComplete'
  BY <1>1, <1>2, Named DEF Safe, PathsComplete, Apart, ImageOf, TypeInv
<1>5. Apart'
  BY <1>1 DEF Safe, Apart
<1>6. Underway'
  <2>1. \A v \in Writers : v = w
    BY DEF OneWriter
  <2>2. wr'[w] = [at |-> "writing", ino |-> i, todo |-> t, pos |-> pos]
    BY <1>1, <1>3, StageParts DEF TypeInv
  <2>3. t[pos] \in Frames /\ pos \in Nat \ {0}
    BY <1>1, <1>3, Positions
  <2>4. PICK f \in Seq(Frames), x \in Frames, p \in Nat \ {0} :
            f = data[i] /\ x = t[pos] /\ p = pos
    BY <1>2, <2>3, Named
  <2>5. /\ Len(WriteAt(f, p, x)) = p
        /\ \A n \in 1..p : WriteAt(f, p, x)[n] = IF n = p THEN x ELSE f[n]
    <3>1. Len(f) = p - 1
      BY <1>2, <1>3, <2>4
    <3>2. /\ Len(WriteAt(f, p, x)) = IF p > Len(f) THEN p ELSE Len(f)
          /\ \A n \in 1..Len(WriteAt(f, p, x)) :
                 WriteAt(f, p, x)[n] = IF n = p THEN x ELSE IF n <= Len(f) THEN f[n] ELSE Junk
      BY WriteAtShape
    <3> QED BY <3>1, <3>2
  <2>6. data'[i] = WriteAt(f, p, x)
    BY <1>1, <1>2, <2>4 DEF TypeInv
  <2>7. Len(data'[i]) = pos /\ \A n \in 1..pos : data'[i][n] = t[n]
    BY <1>2, <1>3, <2>4, <2>5, <2>6
  <2>8. \A k \in Inodes : ImageOf(k)' = ImageOf(k)
    BY <1>1 DEF ImageOf
  <2>9. wr'[w].at = "writing" /\ wr'[w].ino = i /\ wr'[w].todo = t /\ wr'[w].pos = pos
    BY <2>2
  <2>10. PICK j \in Inodes : j = i
    BY <1>2
  <2>11. PICK u, q : u = t /\ q = pos
    OBVIOUS
  <2>12. dir'[Tmp] = j /\ j \notin damaged' /\ u = ImageOf(j)'
    BY <1>1, <1>2, <2>8, <2>10, <2>11
  <2>13. /\ wr'[w].at = "writing" /\ wr'[w].ino = j /\ wr'[w].todo = u /\ wr'[w].pos = q
         /\ Len(data'[j]) = q /\ \A n \in 1..q : data'[j][n] = u[n]
    BY <2>7, <2>9, <2>10, <2>11
  <2> QED BY <2>1, <2>12, <2>13 DEF Underway
<1>7. ReadersKnow'
  BY <1>1 DEF Safe, ReadersKnow, Reading
<1> QED BY <1>4, <1>5, <1>6, <1>7 DEF Safe

\* After the sync the temporary file is a complete image on stable storage.
LEMMA SyncSafe ==
    ASSUME TypeInv, Safe, OneWriter, NEW w \in Writers, Sync(w)
    PROVE  Safe'
<1>1. /\ wr[w].at = "writing" /\ wr[w].pos = Len(wr[w].todo)
      /\ wr' = [wr EXCEPT ![w] = [wr[w] EXCEPT !.at = "synced"]]
      /\ synced' = synced \cup {wr[w].ino}
      /\ UNCHANGED <<schema, db, dir, pastDirs, data, rd, origin, damaged>>
  BY DEF Sync, Written
<1>2. PICK i \in Inodes : /\ i = wr[w].ino /\ dir[Tmp] = i /\ i \notin damaged
                          /\ wr[w].todo = ImageOf(i) /\ Len(data[i]) = Len(ImageOf(i))
                          /\ \A n \in 1..Len(data[i]) : data[i][n] = ImageOf(i)[n]
  BY <1>1 DEF Safe, Underway, Writing
<1>3. data[i] = ImageOf(i)
  BY <1>2, Named, SeqEqual
<1>4. \A p \in Inodes : ImageOf(p)' = ImageOf(p)
  BY <1>1 DEF ImageOf
<1>5. PathsComplete'
  BY <1>1, <1>4, Named DEF Safe, PathsComplete
<1>6. Apart'
  BY <1>1 DEF Safe, Apart
<1>7. Underway'
  <2>1. \A v \in Writers : v = w
    BY DEF OneWriter
  <2>2. wr'[w].at = "synced" /\ wr'[w].ino = i
    BY <1>1, <1>2 DEF TypeInv, Stages
  <2> QED BY <1>1, <1>2, <1>3, <1>4, <2>1, <2>2 DEF Underway
<1>8. ReadersKnow'
  BY <1>1 DEF Safe, ReadersKnow, Reading
<1> QED BY <1>5, <1>6, <1>7, <1>8 DEF Safe

\* The renaming puts a complete file in the place of a complete one.
LEMMA RenameSafe ==
    ASSUME TypeInv, Safe, OneWriter, NEW w \in Writers, Rename(w)
    PROVE  Safe'
<1>1. /\ wr[w].at = "synced" /\ wr' = [wr EXCEPT ![w] = NoBackup]
      /\ pastDirs' = pastDirs \cup {dir'}
      /\ UNCHANGED <<schema, db, data, synced, rd, origin, damaged>>
  BY DEF Rename
<1>2. PICK i \in Inodes : /\ i = wr[w].ino /\ dir[Tmp] = i /\ i \notin damaged
                          /\ data[i] = ImageOf(i) /\ i \in synced
  BY <1>1 DEF Safe, Underway, Writing
<1>3. dir'[Path] = i /\ dir'[Tmp] = NoFile
  BY <1>2, Named DEF Rename, Path, Tmp
<1>4. \A p \in Inodes : ImageOf(p)' = ImageOf(p)
  BY <1>1 DEF ImageOf
<1>5. PathsComplete'
  BY <1>1, <1>2, <1>3, <1>4, Named DEF Safe, PathsComplete
<1>6. Apart'
  BY <1>1, <1>2, <1>3, Named DEF Safe, Apart
<1>7. Underway'
  <2>1. \A v \in Writers : wr'[v] = NoBackup
    BY <1>1 DEF OneWriter, TypeInv
  <2> QED BY <2>1, Values DEF Underway, Writing
<1>8. ReadersKnow'
  BY <1>1, <1>3, Named DEF Safe, ReadersKnow, Reading
<1> QED BY <1>5, <1>6, <1>7, <1>8 DEF Safe

\* A backup that fails leaves its temporary file behind.
LEMMA FailSafe ==
    ASSUME TypeInv, Safe, OneWriter, NEW w \in Writers, FailBackup(w)
    PROVE  Safe'
<1>1. wr' = [wr EXCEPT ![w] = NoBackup] /\ UNCHANGED <<schema, db, fileVars, rd>>
  BY DEF FailBackup
<1>2. \A v \in Writers : wr'[v] = NoBackup
  BY <1>1 DEF OneWriter, TypeInv
<1>3. Underway'
  BY <1>2, Values DEF Underway, Writing
<1>4. PathsComplete' /\ Apart' /\ ReadersKnow'
  BY <1>1 DEF fileVars, Safe, PathsComplete, Apart, ReadersKnow, Reading, ImageOf
<1> QED BY <1>3, <1>4 DEF Safe

\* What passes the checksum is the whole of a backup.
LEMMA ReadSafe ==
    ASSUME TypeInv, Safe, NEW r \in Readers, NEW overwrite \in BOOLEAN, NEW skip \in BOOLEAN,
           ReadBackup(r, overwrite, skip)
    PROVE  Safe'
<1>1. dir[Path] \in Inodes
  BY Named DEF ReadBackup
<1>2. PICK i \in Inodes, f \in Seq(Frames) : i = dir[Path] /\ f = data[i]
  BY <1>1, Named
<1>3. /\ Intact(f) /\ SchemaAgrees(f, skip)
      /\ rd' = [rd EXCEPT ![r] = [at |-> "checked", ino |-> i, got |-> Rebuild(f),
                                  overwrite |-> overwrite, skip |-> skip]]
      /\ UNCHANGED <<schema, db, fileVars, wr>>
  BY <1>2 DEF ReadBackup
<1>4. PICK d \in Databases, h \in AnyHash : d = origin[i].db /\ h = origin[i].hash
  BY Named
<1>5. f = Image(d, h)
  <2>1. i \in damaged => Tampered(f, Image(d, h))
    BY <1>2, <1>4, Named DEF Safe, PathsComplete, ImageOf
  <2>2. i \notin damaged => f = Image(d, h)
    BY <1>2, <1>4, Named DEF Safe, PathsComplete, ImageOf
  <2> QED BY <1>3, <2>1, <2>2, WholeOrRefused
<1>6. Rebuild(f) = d
  BY <1>5, RebuildOfImage
<1>7. f[1].hash = h
  <2>1. Image(d, h)[1] = Header(h)
    BY ImageShape
  <2> QED BY <1>5, <2>1, Kinds
<1>8. skip \/ NoHash \in {h, schema} \/ h = schema
  BY <1>3, <1>7 DEF SchemaAgrees
<1>9. i # dir[Tmp]
  BY <1>2, Named DEF Safe, Apart
<1>10. ReadersKnow'
  <2> SUFFICES ASSUME NEW s \in Readers, rd'[s].at # "idle"
               PROVE  /\ rd'[s].ino \in Inodes /\ rd'[s].ino # dir[Tmp]
                      /\ rd'[s].got = origin[rd'[s].ino].db
                      /\ \/ rd'[s].skip \/ NoHash \in {origin[rd'[s].ino].hash, schema}
                         \/ origin[rd'[s].ino].hash = schema
    BY <1>3 DEF ReadersKnow, Reading, fileVars
  <2>1. CASE s = r
    <3>1. /\ rd'[s].ino = i /\ rd'[s].got = Rebuild(f) /\ rd'[s].skip = skip
      BY <1>3, <2>1 DEF TypeInv
    <3> QED BY <3>1, <1>4, <1>6, <1>8, <1>9
  <2>2. CASE s # r
    BY <1>3, <2>2 DEF Safe, ReadersKnow, Reading, TypeInv
  <2> QED BY <2>1, <2>2
<1>11. PathsComplete' /\ Apart' /\ Underway'
  BY <1>3 DEF fileVars, Safe, PathsComplete, Apart, Underway, Writing, ImageOf
<1> QED BY <1>10, <1>11 DEF Safe

\* What was applied is no longer held, and no file is touched.
LEMMA ApplySafe ==
    ASSUME TypeInv, Safe, NEW r \in Readers, ApplyBackup(r)
    PROVE  Safe'
<1>1. rd' = [rd EXCEPT ![r] = NoRestore] /\ UNCHANGED <<schema, fileVars, wr>>
  BY DEF ApplyBackup
<1>2. \A s \in Readers : rd'[s].at # "idle" => rd'[s] = rd[s]
  BY <1>1, Values DEF TypeInv
<1>3. ReadersKnow'
  BY <1>1, <1>2 DEF fileVars, Safe, ReadersKnow, Reading
<1>4. PathsComplete' /\ Apart' /\ Underway'
  BY <1>1 DEF fileVars, Safe, PathsComplete, Apart, Underway, Writing, ImageOf
<1> QED BY <1>3, <1>4 DEF Safe

\* Files in use stay as they are when the directory reaches stable storage.
LEMMA FlushSafe ==
    ASSUME TypeInv, Safe, FlushDirectory
    PROVE  Safe'
<1> DEFINE named == {dir[Path], dir[Tmp]} \cup {rd[r].ino : r \in Readers}
                    \cup {wr[w].ino : w \in Writers}
<1>1. /\ pastDirs' = {dir}
      /\ origin' = [i \in Inodes |-> IF i \in named THEN origin[i] ELSE NoOrigin]
      /\ damaged' = damaged \cap named
      /\ data' = [i \in Inodes |-> IF i \in named THEN data[i] ELSE <<>>]
      /\ synced' = synced \cup (Inodes \ named)
      /\ UNCHANGED <<schema, db, dir, wr, rd>>
  BY DEF FlushDirectory, Reclaim
<1>2. /\ dir[Path] \in named
      /\ \A r \in Readers : rd[r].ino \in named
      /\ \A w \in Writers : wr[w].ino \in named
  OBVIOUS
<1> HIDE DEF named
<1>3. \A i \in Inodes \cap named :
          /\ data'[i] = data[i] /\ origin'[i] = origin[i] /\ ImageOf(i)' = ImageOf(i)
          /\ (i \in synced' <=> i \in synced) /\ (i \in damaged' <=> i \in damaged)
  BY <1>1 DEF ImageOf
<1>4. PathsComplete'
  BY <1>1, <1>2, <1>3, Named DEF Safe, PathsComplete
<1>5. Apart'
  BY <1>1, Named DEF Safe, Apart
<1>6. Underway'
  BY <1>1, <1>2, <1>3 DEF Safe, Underway, Writing
<1>7. ReadersKnow'
  BY <1>1, <1>2, <1>3 DEF Safe, ReadersKnow, Reading
<1> QED BY <1>4, <1>5, <1>6, <1>7 DEF Safe

\* Whoever changes the file at <path> changes no temporary file, and makes no
\* checksum.
LEMMA DamageSafe ==
    ASSUME TypeInv, Safe, NEW n, Damage(n)
    PROVE  Safe'
<1>1. PICK i \in Inodes, f \in Seq(Frames) : i = dir[Path] /\ f = data[i] /\ i \notin damaged
  BY Named DEF Damage
<1>2. PICK g \in Spoiled(f, n) : data' = [data EXCEPT ![i] = g]
  BY <1>1 DEF Damage
<1>3. /\ n \in DOMAIN f /\ damaged' = damaged \cup {i}
      /\ UNCHANGED <<schema, db, dir, pastDirs, synced, wr, rd, origin>>
  BY <1>1 DEF Damage
<1>4. f = ImageOf(i) /\ i \in synced
  BY <1>1, Named DEF Safe, PathsComplete
<1>5. Tampered(g, ImageOf(i))
  <2>1. \A m \in 1..Len(f) : f[m].is = "crc" => m = Len(f)
    BY <1>4, Named, ImageChecksum DEF ImageOf
  <2>2. /\ g \in Seq(Frames) /\ Len(g) <= Len(f)
        /\ \A m \in 1..Len(g) : g[m].is = "crc" => g[m] = f[m]
    BY <1>3, SpoiledShape
  <2>3. Len(f) \in Nat /\ Len(g) \in Nat
    BY <2>2, Positions
  <2>4. \A m \in 1..Len(g) : g[m].is = "crc" => m = Len(f) /\ g[m] = f[m]
    BY <2>1, <2>2, <2>3
  <2> QED BY <1>4, <2>2, <2>4 DEF Tampered
<1>6. \A p \in Inodes : ImageOf(p)' = ImageOf(p)
  BY <1>3 DEF ImageOf
<1>7. data'[i] = g /\ \A p \in Inodes \ {i} : data'[p] = data[p]
  BY <1>2 DEF TypeInv
<1>8. PathsComplete'
  BY <1>3, <1>4, <1>5, <1>6, <1>7, Named DEF Safe, PathsComplete
<1>9. Apart'
  BY <1>3 DEF Safe, Apart
<1>10. dir[Tmp] # i
  BY <1>1, Named DEF Safe, Apart
<1>11. Underway'
  BY <1>3, <1>6, <1>7, <1>10 DEF Safe, Underway, Writing
<1>12. ReadersKnow'
  BY <1>3 DEF Safe, ReadersKnow, Reading
<1> QED BY <1>8, <1>9, <1>11, <1>12 DEF Safe

\* The directory that comes back names a complete file that was synced.
LEMMA CrashSafe ==
    ASSUME TypeInv, Safe, Crash
    PROVE  Safe'
<1>1. dir' \in pastDirs /\ pastDirs' = {dir'} /\ synced' = Inodes
      /\ wr' = [w \in Writers |-> NoBackup] /\ rd' = [r \in Readers |-> NoRestore]
  BY DEF Crash
<1>2. PICK d \in pastDirs : d = dir'
  BY <1>1
<1>3. ASSUME d[Path] # NoFile
      PROVE  LET i == d[Path] IN
             /\ i \in Inodes /\ data'[i] = data[i] /\ origin'[i] = origin[i]
             /\ (i \in damaged' <=> i \in damaged)
  <2>1. PICK i \in Inodes : i = d[Path] /\ i \in synced
    BY <1>3, Named DEF Safe, PathsComplete
  <2>2. PICK named : named = {d[Path], d[Tmp]}
    OBVIOUS
  <2>3. /\ origin' = [j \in Inodes |-> IF j \in named THEN origin[j] ELSE NoOrigin]
        /\ damaged' = damaged \cap named
    BY <1>2, <2>2 DEF Crash, Reclaim
  <2>4. PICK cut \in [(Inodes \cap named) \ synced -> 0..(Cardinality(Keys) + 4)] :
            data' = [j \in Inodes |->
                        IF j \notin named THEN <<>>
                        ELSE IF j \in synced THEN data[j] ELSE Prefix(data[j], cut[j])]
    BY <1>2, <2>2 DEF Crash
  <2>5. i \in named
    BY <2>1, <2>2
  <2> QED BY <2>1, <2>3, <2>4, <2>5
<1>4. PathsComplete'
  BY <1>1, <1>2, <1>3 DEF Safe, PathsComplete, ImageOf
<1>5. Apart'
  BY <1>1, <1>2 DEF Safe, Apart
<1>6. Underway' /\ ReadersKnow'
  BY <1>1, Values DEF Underway, ReadersKnow, Writing, Reading
<1> QED BY <1>4, <1>5, <1>6 DEF Safe

LEMMA SafeStep ==
    ASSUME OneWriter PROVE TypeInv /\ Safe /\ [Next]_vars => Safe'
<1> SUFFICES ASSUME TypeInv, Safe, [Next]_vars PROVE Safe'
  OBVIOUS
<1>1. CASE UNCHANGED vars
  BY <1>1 DEF vars, fileVars, Safe, PathsComplete, Apart, Underway, ReadersKnow,
              Writing, Reading, ImageOf
<1>2. ASSUME NEW k, NEW v, Commit(k, v) PROVE Safe'
  BY <1>2 DEF Commit, fileVars, Safe, PathsComplete, Apart, Underway, ReadersKnow,
              Writing, Reading, ImageOf
<1>3. ASSUME NEW all, Migrate(all) PROVE Safe'
  BY <1>3 DEF Migrate, fileVars, Safe, PathsComplete, Apart, Underway, ReadersKnow,
              Writing, Reading, ImageOf
<1>4. CASE Next
  BY <1>2, <1>3, <1>4, CreateSafe, ListSafe, WriteSafe, SyncSafe, RenameSafe, FailSafe,
     ReadSafe, ApplySafe, FlushSafe, DamageSafe, CrashSafe DEF Next
<1> QED BY <1>1, <1>4

LEMMA OneWriterInv == ASSUME OneWriter PROVE Spec => [](TypeInv /\ Safe)
<1>1. Init => TypeInv /\ Safe
  BY InitType, InitSafe
<1>2. TypeInv /\ Safe /\ [Next]_vars => (TypeInv /\ Safe)'
  BY TypeStep, SafeStep
<1> QED BY <1>1, <1>2, PTL DEF Spec

\* With one backup at a time, what is at <path> is one whole backup, through
\* every failure, crash and change of the directory, unless it was changed
\* from outside.
THEOREM WholeBackupsOneWriter == ASSUME OneWriter PROVE Spec => []WholeBackups
<1>1. TypeInv /\ Safe => WholeBackups
  BY Named DEF Safe, PathsComplete, WholeBackups, ImageOf
<1> QED BY <1>1, OneWriterInv, PTL

\* With one backup at a time, a restore brings back exactly what one backup
\* listed, or nothing: also from a file that was cut short or changed.
THEOREM RestoreIsWholeOneWriter == ASSUME OneWriter PROVE Spec => RestoreIsWhole
<1> DEFINE Step == \A r \in Readers : Restores(r) =>
                       LET o == origin[rd[r].ino] IN
                           /\ db' = o.db
                           /\ rd[r].overwrite \/ db = Empty
                           /\ rd[r].skip \/ NoHash \in {o.hash, schema} \/ o.hash = schema
<1>1. TypeInv /\ Safe /\ [Next]_vars => [Step]_vars
  <2> SUFFICES ASSUME TypeInv, Safe, Next, NEW r \in Readers, Restores(r)
               PROVE  LET o == origin[rd[r].ino] IN
                           /\ db' = o.db
                           /\ rd[r].overwrite \/ db = Empty
                           /\ rd[r].skip \/ NoHash \in {o.hash, schema} \/ o.hash = schema
    OBVIOUS
  <2>1. rd'[r] # rd[r] /\ db' # db /\ Reading(r)
    BY Values DEF Restores, Reading
  <2>2. rd' # rd /\ db' # db
    BY <2>1
  <2>3. \E s \in Readers : ApplyBackup(s)
    <3>1. \A w \in Writers :
              \/ \E i \in Inodes : CreateTmp(w, i)
              \/ ListEntries(w) \/ WriteFrame(w) \/ Sync(w) \/ Rename(w) \/ FailBackup(w)
              => db' = db
      BY DEF CreateTmp, ListEntries, WriteFrame, Sync, Rename, FailBackup
    <3>2. \A s, overwrite, skip : ReadBackup(s, overwrite, skip) => db' = db
      BY DEF ReadBackup
    <3>3. \A k, v : Commit(k, v) => rd' = rd
      BY DEF Commit
    <3>4. \A all : Migrate(all) => rd' = rd
      BY DEF Migrate
    <3>5. FlushDirectory \/ Crash \/ (\E n : Damage(n)) => db' = db
      BY DEF FlushDirectory, Crash, Damage
    <3> QED BY <2>2, <3>1, <3>2, <3>3, <3>4, <3>5 DEF Next
  <2>4. PICK s \in Readers : ApplyBackup(s)
    BY <2>3
  <2>5. s = r
    BY <2>1, <2>4 DEF ApplyBackup, TypeInv
  <2> QED BY <2>1, <2>4, <2>5 DEF ApplyBackup, Safe, ReadersKnow
<1> QED BY <1>1, OneWriterInv, PTL DEF Spec, RestoreIsWhole
=============================================================================
