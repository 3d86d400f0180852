--------------------------- MODULE RxcExec_proofs ---------------------------
(***************************************************************************)
(* Proofs about RxcExec, for any files, patterns, documents and lookups:   *)
(* the cache of the profiles is what the files hold that it was loaded     *)
(* from, as long as their stamps are the same.                             *)
(***************************************************************************)
EXTENDS RxcExec, FiniteSetTheorems, NaturalsInduction, WellFoundedInduction, TLAPS

-----------------------------------------------------------------------------
(* The invariant.                                                          *)

\* What a file can hold that can be read.
Docs == (Documents \cup Edits) \ {Broken}

Contents(map) == {map[n] : n \in DOMAIN map}

Profiles(doc) == {doc[i] : i \in DOMAIN doc}

\* The profiles of documents D of files F.
From(D, F) == UNION {Profiles(D[f]) : f \in F}

\* A file that has the stamp it was loaded with has the document it was loaded with.
Agrees(files, D, states, F) ==
  \A f \in F : files[f] # Absent /\ files[f].stamp = states[f] => files[f].doc = D[f]

\* A map holds the profiles of files F as they were when they were read.
Holds(files, states, map, F) ==
  \E D \in [F -> Docs] : Agrees(files, D, states, F) /\ Contents(map) = From(D, F)

\* Stamps that have been given to files.
Stamped(states) == \A f \in DOMAIN states : f \in Files /\ states[f] \in Nat /\ states[f] <= edits

FileType == [doc : Docs \cup {Broken}, stamp : Nat]

Patterns == Seq((SUBSET Files) \cup {BadPattern})

TypeOK ==
  /\ file \in [Files -> {Absent} \cup FileType] /\ edits \in Nat
  /\ \A f \in Files : file[f] # Absent => file[f].stamp <= edits
  /\ rxc_profile_files \in PatternLists /\ patterns \in Patterns /\ todo \subseteq Files

\* Where the lookup that reloads is, and what it has collected.
Scan ==
  /\ Stamped(file_states)
  /\ at \in {"idle", "glob"} => file_states = Empty
  /\ at # "read" => profiles = Empty
  /\ at = "stat" => DOMAIN file_states \subseteq todo
  /\ at = "compare" => todo = DOMAIN file_states
  /\ at = "read" => /\ todo \subseteq DOMAIN file_states
                    /\ Holds(file, file_states, profiles, DOMAIN file_states \ todo)

Loaded ==
  rxc_profile_loaded =>
    /\ Stamped(rxc_profile_file_states)
    /\ Holds(file, rxc_profile_file_states, rxc_profile_map, DOMAIN rxc_profile_file_states)

IInv == TypeOK /\ Scan /\ Loaded

-----------------------------------------------------------------------------
(* The operators.                                                          *)

\* The files are taken in the order of their paths.
LEMMA FirstFile ==
  ASSUME NEW S \in SUBSET Files, S # {}
  PROVE  Min(S) \in S
<1>. DEFINE R == OpToRel(<, Nat)
<1>0. S \in SUBSET Nat
  BY FilesAssumption, Zenon
<1>1. \E x \in S : \A y \in S : <<y, x>> \notin R
  BY <1>0, NatLessThanWellFounded, WFMin, Zenon
<1>2. \A x, y \in Nat : y < x => <<y, x>> \in R
  BY DEF OpToRel
<1>. HIDE DEF R
<1>3. PICK x \in S : \A y \in S : <<y, x>> \notin R
  BY <1>1, Zenon
<1>4. ASSUME NEW y \in S
      PROVE  x <= y
  <2>1. x \in Nat /\ y \in Nat /\ ~(y < x)
    BY <1>0, <1>2, <1>3, Zenon
  <2>. QED  BY <2>1, SMT
<1>. QED  BY <1>4, Zenon DEF Min

LEMMA DocType ==
  ASSUME NEW doc \in Docs
  PROVE  Len(doc) \in Nat /\ DOMAIN doc = 1 .. Len(doc) /\ doc \in Seq(Profiles(doc))
<1>1. doc \in Seq(Profiles(doc))
  BY DocumentsAssumption, Zenon DEF Docs, Profiles
<1>. HIDE DEF Profiles
<1>. QED  BY <1>1, SMT

\* The names of a document that can be appended are different.
LEMMA NamesDiffer ==
  ASSUME NEW dst, NEW doc \in Docs, Appendable(dst, doc)
  PROVE  \A i, j \in DOMAIN doc : doc[i].name = doc[j].name => i = j
<1>. DEFINE f == [i \in DOMAIN doc |-> doc[i].name]
<1>1. IsFiniteSet(DOMAIN doc) /\ Cardinality(DOMAIN doc) = Len(doc)
  <2>1. Len(doc) \in Nat /\ DOMAIN doc = 1 .. Len(doc)
    BY DocType, Zenon
  <2>2. IsFiniteSet(1 .. Len(doc)) /\ Cardinality(1 .. Len(doc)) = Len(doc)
    <3>1. PICK n \in Nat : n = Len(doc)
      BY <2>1, Zenon
    <3>2. 1 \in Int /\ n \in Int
      BY SMT
    <3>3. IsFiniteSet(1 .. n) /\ Cardinality(1 .. n) = IF 1 > n THEN 0 ELSE n - 1 + 1
      BY <3>2, FS_Interval, Zenon
    <3>4. (IF 1 > n THEN 0 ELSE n - 1 + 1) = n
      BY SMT
    <3>. QED  BY <3>1, <3>3, <3>4, Zenon
  <2>. QED  BY <2>1, <2>2, Zenon
<1>2. f \in Surjection(DOMAIN doc, Names(doc))
  BY Zenon DEF Surjection, Names
<1>3. Cardinality(Names(doc)) = Cardinality(DOMAIN doc)
  BY <1>1, Zenon DEF Appendable
<1>. HIDE DEF f
<1>4. f \in Injection(DOMAIN doc, Names(doc))
  BY <1>1, <1>2, <1>3, FS_Surjection, Zenon
<1>. QED  BY <1>4, Zenon DEF Injection, IsInjective, f

\* append_client_rxc_profiles adds every profile of the document and loses none.
LEMMA Appended ==
  ASSUME NEW dst, NEW doc \in Docs, Appendable(dst, doc)
  PROVE  Contents(AppendProfiles(dst, doc)) = Contents(dst) \cup Profiles(doc)
<1>. DEFINE r == AppendProfiles(dst, doc)
            place(n) == CHOOSE i \in DOMAIN doc : doc[i].name = n
<1>1. /\ DOMAIN r = DOMAIN dst \cup Names(doc)
      /\ \A n \in DOMAIN dst : r[n] = dst[n]
      /\ \A n \in Names(doc) : r[n] = doc[place(n)]
  BY Zenon DEF AppendProfiles, Appendable
<1>2. ASSUME NEW n \in Names(doc)
      PROVE  place(n) \in DOMAIN doc /\ doc[place(n)].name = n
  BY Zenon DEF Names
<1>3. ASSUME NEW i \in DOMAIN doc
      PROVE  doc[i].name \in Names(doc) /\ place(doc[i].name) = i
  <2>1. doc[i].name \in Names(doc)
    BY Zenon DEF Names
  <2>. QED  BY <1>2, <2>1, NamesDiffer, Zenon
<1>. HIDE DEF r, place
<1>4. ASSUME NEW v \in Contents(r)
      PROVE  v \in Contents(dst) \cup Profiles(doc)
  <2>1. PICK n \in DOMAIN r : v = r[n]
    BY Zenon DEF Contents
  <2>2. CASE n \in DOMAIN dst
    BY <1>1, <2>1, <2>2, Zenon DEF Contents
  <2>3. CASE n \in Names(doc)
    BY <1>1, <1>2, <2>1, <2>3, Zenon DEF Profiles
  <2>. QED  BY <1>1, <2>1, <2>2, <2>3, Zenon
<1>5. ASSUME NEW v \in Contents(dst) \cup Profiles(doc)
      PROVE  v \in Contents(r)
  <2>1. CASE v \in Contents(dst)
    BY <1>1, <2>1, Zenon DEF Contents
  <2>2. CASE v \in Profiles(doc)
    <3>1. PICK i \in DOMAIN doc : v = doc[i]
      BY <2>2, Zenon DEF Profiles
    <3>2. doc[i].name \in DOMAIN r /\ r[doc[i].name] = doc[i]
      BY <1>1, <1>3, Zenon
    <3>. QED  BY <3>1, <3>2, Zenon DEF Contents
  <2>. QED  BY <2>1, <2>2, Zenon
<1>. QED  BY <1>4, <1>5, Zenon DEF r

\* Nothing has been read yet.
LEMMA HoldsNothing ==
  ASSUME NEW files, NEW states
  PROVE  Holds(files, states, Empty, {})
<1>. DEFINE D == [f \in {} |-> f]
<1>1. D \in [{} -> Docs] /\ Agrees(files, D, states, {})
  BY Zenon DEF Agrees
<1>2. Contents(Empty) = {} /\ From(D, {}) = {}
  BY Zenon DEF Contents, From, Empty
<1>. QED  BY <1>1, <1>2, Zenon DEF Holds

\* One more file has been read.
LEMMA HoldsMore ==
  ASSUME NEW files, NEW states, NEW map, NEW F, Holds(files, states, map, F), NEW f, f \notin F,
         NEW doc \in Docs, doc = files[f].doc, Appendable(map, doc)
  PROVE  Holds(files, states, AppendProfiles(map, doc), F \cup {f})
<1>2. PICK D \in [F -> Docs] : Agrees(files, D, states, F) /\ Contents(map) = From(D, F)
  BY Zenon DEF Holds
<1>. DEFINE E == [g \in F \cup {f} |-> IF g = f THEN doc ELSE D[g]]
<1>3. E \in [F \cup {f} -> Docs]
  BY Zenon
<1>4. E[f] = doc /\ \A g \in F : E[g] = D[g]
  BY Zenon
<1>. HIDE DEF E
<1>5. Agrees(files, E, states, F \cup {f})
  BY <1>2, <1>4, Zenon DEF Agrees
<1>6. From(E, F \cup {f}) = From(D, F) \cup Profiles(doc)
  <2>1. \A g \in F : Profiles(E[g]) = Profiles(D[g])
    BY <1>4, Zenon
  <2>2. Profiles(E[f]) = Profiles(doc)
    BY <1>4, Zenon
  <2>. QED  BY <2>1, <2>2, Zenon DEF From
<1>7. Contents(AppendProfiles(map, doc)) = Contents(map) \cup Profiles(doc)
  BY Appended, Zenon
<1>. QED  BY <1>2, <1>3, <1>5, <1>6, <1>7, Zenon DEF Holds

\* A change gives the file a stamp that no file had.
LEMMA HoldsEdited ==
  ASSUME NEW files, NEW states, NEW map, NEW F, Holds(files, states, map, F), NEW edited,
         \A f \in F : edited[f] # Absent /\ edited[f].stamp = states[f] => edited[f] = files[f]
  PROVE  Holds(edited, states, map, F)
BY Zenon DEF Holds, Agrees

-----------------------------------------------------------------------------
(* The steps.                                                              *)

\* The steps of the files, the clock and the lookups that do not reload.
SameFiles == UNCHANGED <<file, edits, rxc_profile_files>>
SameCache == UNCHANGED <<rxc_profile_map, rxc_profile_file_states, rxc_profile_loaded>>
SameScan == UNCHANGED <<at, patterns, todo, file_states, profiles>>

LEMMA CacheKept ==
  ASSUME IInv, SameFiles, SameCache
  PROVE  Loaded'
BY Zenon DEF IInv, SameFiles, SameCache, Loaded, Stamped

LEMMA QuietStep ==
  ASSUME IInv, SameFiles, SameCache, SameScan
  PROVE  IInv'
<1>1. TypeOK'
  BY Zenon DEF IInv, TypeOK, SameFiles, SameScan
<1>2. Scan'
  BY Zenon DEF IInv, Scan, Stamped, SameFiles, SameScan
<1>. QED  BY <1>1, <1>2, CacheKept, Zenon DEF IInv

\* A load begins or ends: nothing has been collected.
LEMMA Cleared ==
  ASSUME IInv, SameFiles, at' \in {"idle", "glob"}, patterns' \in Patterns, todo' = {},
         file_states' = Empty, profiles' = Empty
  PROVE  TypeOK' /\ Scan'
<1>1. TypeOK'
  BY Zenon DEF IInv, TypeOK, SameFiles
<1>2. DOMAIN file_states' = {}
  BY Zenon DEF Empty
<1>3. Scan'
  BY <1>2, Zenon DEF Scan, Stamped
<1>. QED  BY <1>1, <1>3

LEMMA Ended ==
  ASSUME IInv, SameFiles, NEW l, EndReload(l)
  PROVE  TypeOK' /\ Scan'
<1>1. patterns' \in Patterns
  BY SMT DEF EndReload, Patterns
<1>. QED  BY <1>1, Cleared, Zenon DEF EndReload

LEMMA EditFileStep ==
  ASSUME IInv, NEW f \in Files, EditFile(f)
  PROVE  IInv'
<1>1. UNCHANGED <<rxc_profile_files>> /\ SameCache /\ SameScan
  BY Zenon DEF EditFile, config, cache, scan, SameCache, SameScan
<1>2. edits \in Nat /\ edits' = edits + 1 /\ file \in [Files -> {Absent} \cup FileType]
  BY Zenon DEF EditFile, IInv, TypeOK
<1>3. PICK v : file' = [file EXCEPT ![f] = v] /\ (v = Absent \/ (v \in FileType /\ v.stamp = edits + 1))
  <2>1. CASE file' = [file EXCEPT ![f] = Absent]
    BY <2>1, Zenon
  <2>2. ASSUME NEW d \in Edits \cup {Broken}, file' = [file EXCEPT ![f] = [doc |-> d, stamp |-> edits + 1]]
        PROVE  \E v : file' = [file EXCEPT ![f] = v] /\ v \in FileType /\ v.stamp = edits + 1
    <3>1. d \in Docs \cup {Broken} /\ edits + 1 \in Nat
      BY <1>2, <2>2, SMT DEF Docs
    <3>2. [doc |-> d, stamp |-> edits + 1] \in FileType /\ [doc |-> d, stamp |-> edits + 1].stamp = edits + 1
      BY <3>1, SMT DEF FileType
    <3>. QED  BY <2>2, <3>2, Zenon
  <2>. QED  BY <2>1, <2>2, Zenon DEF EditFile
<1>4. /\ file' \in [Files -> {Absent} \cup FileType]
      /\ file'[f] = v /\ \A g \in Files : g # f => file'[g] = file[g]
  BY <1>2, <1>3, Zenon
<1>5. \A n \in Nat : n <= edits => n # edits + 1 /\ n <= edits + 1
  BY <1>2, SMT
<1>6. TypeOK'
  <2>1. ASSUME NEW g \in Files, file'[g] # Absent
        PROVE  file'[g].stamp <= edits'
    <3>1. CASE g = f
      <4>1. v.stamp = edits + 1
        BY <1>3, <1>4, <2>1, <3>1, Zenon
      <4>. QED  BY <1>2, <1>4, <3>1, <4>1, SMT
    <3>2. CASE g # f
      <4>1. file[g] \in FileType /\ file[g].stamp <= edits
        BY <1>2, <1>4, <2>1, <3>2, Zenon DEF IInv, TypeOK
      <4>2. file[g].stamp \in Nat
        BY <4>1, SMT DEF FileType
      <4>. QED  BY <1>2, <1>4, <1>5, <3>2, <4>1, <4>2, Zenon
    <3>. QED  BY <3>1, <3>2
  <2>2. edits' \in Nat
    BY <1>2, SMT
  <2>. QED  BY <1>1, <1>4, <2>1, <2>2, Zenon DEF IInv, TypeOK, SameScan
<1>7. ASSUME NEW states, Stamped(states), NEW F \in SUBSET DOMAIN states
      PROVE  \A g \in F : file'[g] # Absent /\ file'[g].stamp = states[g] => file'[g] = file[g]
  <2>1. ASSUME NEW g \in F, file'[g] # Absent, file'[g].stamp = states[g], g = f
        PROVE  FALSE
    <3>1. states[g] \in Nat /\ states[g] <= edits /\ v.stamp = edits + 1
      BY <1>3, <1>4, <1>7, <2>1, Zenon DEF Stamped
    <3>. QED  BY <1>4, <1>5, <2>1, <3>1, Zenon
  <2>. QED  BY <1>4, <1>7, <2>1, Zenon DEF Stamped
<1>8. ASSUME NEW states, Stamped(states)
      PROVE  \A g \in DOMAIN states : g \in Files /\ states[g] \in Nat /\ states[g] <= edits'
  BY <1>2, <1>5, <1>8, Zenon DEF Stamped
<1>9. Scan'
  <2>1. Stamped(file_states)
    BY Zenon DEF IInv, Scan
  <2>2. Stamped(file_states)'
    BY <1>1, <1>8, <2>1, Zenon DEF Stamped, SameScan
  <2>3. ASSUME at = "read"
        PROVE  Holds(file', file_states, profiles, DOMAIN file_states \ todo)
    <3>1. Holds(file, file_states, profiles, DOMAIN file_states \ todo)
      BY <2>3, Zenon DEF IInv, Scan
    <3>2. DOMAIN file_states \ todo \in SUBSET DOMAIN file_states
      BY Zenon
    <3>3. \A g \in DOMAIN file_states \ todo :
            file'[g] # Absent /\ file'[g].stamp = file_states[g] => file'[g] = file[g]
      BY <1>7, <2>1, <3>2, Zenon
    <3>. QED  BY <3>1, <3>3, HoldsEdited, Zenon
  <2>. QED  BY <1>1, <2>2, <2>3, Zenon DEF IInv, Scan, SameScan
<1>10. Loaded'
  <2>. SUFFICES ASSUME rxc_profile_loaded
                PROVE  /\ Stamped(rxc_profile_file_states)'
                       /\ Holds(file', rxc_profile_file_states, rxc_profile_map, DOMAIN rxc_profile_file_states)
    BY <1>1, Zenon DEF Loaded, SameCache
  <2>1. /\ Stamped(rxc_profile_file_states)
        /\ Holds(file, rxc_profile_file_states, rxc_profile_map, DOMAIN rxc_profile_file_states)
    BY Zenon DEF IInv, Loaded
  <2>2. Stamped(rxc_profile_file_states)'
    BY <1>1, <1>8, <2>1, Zenon DEF Stamped, SameCache
  <2>3. \A g \in DOMAIN rxc_profile_file_states :
          file'[g] # Absent /\ file'[g].stamp = rxc_profile_file_states[g] => file'[g] = file[g]
    BY <1>7, <2>1, Zenon
  <2>. QED  BY <2>1, <2>2, <2>3, HoldsEdited, Zenon
<1>. QED  BY <1>6, <1>9, <1>10, Zenon DEF IInv

LEMMA BeginReloadStep ==
  ASSUME IInv, NEW l \in Lookups, BeginReload(l)
  PROVE  IInv'
<1>1. SameFiles /\ SameCache
  BY Zenon DEF BeginReload, fs, config, cache, SameFiles, SameCache
<1>2. CASE SameScan
  BY <1>1, <1>2, QuietStep
<1>3. CASE /\ at' = "glob" /\ patterns' = rxc_profile_files /\ todo' = {}
           /\ file_states' = Empty /\ profiles' = Empty
  <2>1. patterns' \in Patterns
    BY <1>3, PatternsAssumption, Zenon DEF IInv, TypeOK, Patterns
  <2>. QED  BY <1>1, <1>3, <2>1, Cleared, CacheKept, Zenon DEF IInv
<1>. QED  BY <1>2, <1>3, Zenon DEF BeginReload, scan, SameScan

LEMMA GlobStep ==
  ASSUME IInv, NEW l \in Lookups, Glob(l)
  PROVE  IInv'
<1>0. file_states = Empty /\ profiles = Empty /\ at = "glob" /\ patterns \in Patterns /\ DOMAIN Empty = {}
  BY Zenon DEF Glob, Reloading, IInv, Scan, TypeOK, Empty
<1>1. SameFiles /\ SameCache
  BY Zenon DEF Glob, fs, config, cache, SameFiles, SameCache
<1>2. CASE EndReload(l)
  BY <1>1, <1>2, Ended, CacheKept, Zenon DEF IInv
<1>3. CASE at' = "stat" /\ UNCHANGED <<patterns, todo, file_states, profiles>>
  <2>1. TypeOK'
    BY <1>1, <1>3, Zenon DEF IInv, TypeOK, SameFiles
  <2>2. Stamped(file_states)'
    BY <1>0, <1>3, Zenon DEF Stamped
  <2>3. Scan'
    BY <1>0, <1>3, <2>2, Zenon DEF Scan
  <2>. QED  BY <1>1, <2>1, <2>3, CacheKept, Zenon DEF IInv
<1>4. CASE /\ patterns # <<>> /\ Head(patterns) # BadPattern
           /\ todo' = todo \cup {f \in Head(patterns) : file[f] # Absent}
           /\ patterns' = Tail(patterns) /\ UNCHANGED <<at, file_states, profiles>>
  <2>1. Head(patterns) \in SUBSET Files /\ patterns' \in Patterns
    <3>1. Head(patterns) \in (SUBSET Files) \cup {BadPattern} /\ Tail(patterns) \in Patterns
      BY <1>0, <1>4, SMT DEF Patterns
    <3>. QED  BY <1>4, <3>1, Zenon
  <2>2. todo' \subseteq Files
    BY <1>4, <2>1, Zenon DEF IInv, TypeOK
  <2>3. TypeOK'
    BY <1>1, <2>1, <2>2, Zenon DEF IInv, TypeOK, SameFiles
  <2>4. Scan'
    BY <1>0, <1>4, Zenon DEF Scan, Stamped
  <2>. QED  BY <1>1, <2>3, <2>4, CacheKept, Zenon DEF IInv
<1>. QED  BY <1>2, <1>3, <1>4, Zenon DEF Glob

LEMMA StatStep ==
  ASSUME IInv, NEW l \in Lookups, Stat(l)
  PROVE  IInv'
<1>. DEFINE f == Min(todo \ DOMAIN file_states)
<1>0. /\ profiles = Empty /\ at = "stat" /\ DOMAIN file_states \subseteq todo /\ todo \subseteq Files
      /\ Stamped(file_states)
  BY Zenon DEF Stat, Reloading, IInv, Scan, TypeOK
<1>1. SameFiles /\ SameCache
  BY Zenon DEF Stat, fs, config, cache, SameFiles, SameCache
<1>2. CASE EndReload(l)
  BY <1>1, <1>2, Ended, CacheKept, Zenon DEF IInv
<1>3. CASE todo = DOMAIN file_states /\ at' = "compare" /\ UNCHANGED <<patterns, todo, file_states, profiles>>
  <2>1. TypeOK'
    BY <1>1, <1>3, Zenon DEF IInv, TypeOK, SameFiles
  <2>2. Stamped(file_states)'
    BY <1>0, <1>1, <1>3, Zenon DEF Stamped, SameFiles
  <2>3. Scan'
    BY <1>0, <1>3, <2>2, Zenon DEF Scan
  <2>. QED  BY <1>1, <2>1, <2>3, CacheKept, Zenon DEF IInv
<1>4. CASE /\ todo # DOMAIN file_states /\ file[f] # Absent
           /\ file_states' = [g \in DOMAIN file_states \cup {f} |->
                                IF g = f THEN file[f].stamp ELSE file_states[g]]
           /\ UNCHANGED <<at, patterns, todo, profiles>>
  <2>1. f \in todo \ DOMAIN file_states
    BY <1>0, <1>4, FirstFile, Zenon
  <2>2. file[f].stamp \in Nat /\ file[f].stamp <= edits /\ f \in Files
    <3>1. file[f] \in FileType /\ file[f].stamp <= edits /\ f \in Files
      BY <1>0, <1>4, <2>1, Zenon DEF IInv, TypeOK
    <3>. HIDE DEF f
    <3>. QED  BY <3>1, SMT DEF FileType
  <2>. HIDE DEF f
  <2>3. /\ DOMAIN file_states' = DOMAIN file_states \cup {f}
        /\ file_states'[f] = file[f].stamp
        /\ \A g \in DOMAIN file_states : g # f => file_states'[g] = file_states[g]
    BY <1>4, Zenon
  <2>4. Stamped(file_states)'
    BY <1>0, <1>1, <2>2, <2>3, Zenon DEF Stamped, SameFiles
  <2>5. Scan'
    BY <1>0, <1>4, <2>1, <2>3, <2>4, Zenon DEF Scan
  <2>6. TypeOK'
    BY <1>1, <1>4, Zenon DEF IInv, TypeOK, SameFiles
  <2>. QED  BY <1>1, <2>5, <2>6, CacheKept, Zenon DEF IInv
<1>. QED  BY <1>2, <1>3, <1>4, Zenon DEF Stat

LEMMA CompareStep ==
  ASSUME IInv, NEW l \in Lookups, Compare(l)
  PROVE  IInv'
<1>0. profiles = Empty /\ at = "compare" /\ todo = DOMAIN file_states /\ Stamped(file_states)
  BY Zenon DEF Compare, Reloading, IInv, Scan
<1>1. SameFiles /\ SameCache
  BY Zenon DEF Compare, fs, config, cache, SameFiles, SameCache
<1>2. CASE EndReload(l)
  BY <1>1, <1>2, Ended, CacheKept, Zenon DEF IInv
<1>3. CASE at' = "read" /\ UNCHANGED <<patterns, todo, file_states, profiles>>
  <2>1. TypeOK'
    BY <1>1, <1>3, Zenon DEF IInv, TypeOK, SameFiles
  <2>2. Stamped(file_states)'
    BY <1>0, <1>1, <1>3, Zenon DEF Stamped, SameFiles
  <2>3. DOMAIN file_states \ todo = {}
    BY <1>0, Zenon
  <2>4. Holds(file', file_states', profiles', DOMAIN file_states' \ todo')
    BY <1>0, <1>3, <2>3, HoldsNothing, Zenon
  <2>5. Scan'
    BY <1>0, <1>3, <2>2, <2>4, Zenon DEF Scan
  <2>. QED  BY <1>1, <2>1, <2>5, CacheKept, Zenon DEF IInv
<1>. QED  BY <1>2, <1>3, Zenon DEF Compare

\* The document is added to what has been read; that the file may have changed
\* since its stamp was taken shows in its stamp.
LEMMA ReadFileStep ==
  ASSUME IInv, NEW l \in Lookups, ReadFile(l)
  PROVE  IInv'
<1>. DEFINE f == Min(todo)
            F == DOMAIN file_states \ todo
<1>0. /\ at = "read" /\ todo # {} /\ todo \subseteq Files /\ todo \subseteq DOMAIN file_states
      /\ Stamped(file_states) /\ Holds(file, file_states, profiles, F)
  BY Zenon DEF ReadFile, Reloading, IInv, Scan, TypeOK
<1>1. SameFiles /\ SameCache
  BY Zenon DEF ReadFile, fs, config, cache, SameFiles, SameCache
<1>2. CASE EndReload(l)
  BY <1>1, <1>2, Ended, CacheKept, Zenon DEF IInv
<1>3. CASE /\ Readable(f)
           /\ profiles' = AppendProfiles(profiles, file[f].doc) /\ todo' = todo \ {f}
           /\ UNCHANGED <<at, patterns, file_states>>
  <2>1. f \in todo
    BY <1>0, FirstFile, Zenon
  <2>. HIDE DEF f
  <2>2. file[f].doc \in Docs /\ Appendable(profiles, file[f].doc)
    <3>1. file[f] \in FileType /\ file[f].doc # Broken
      BY <1>0, <1>3, <2>1, Zenon DEF IInv, TypeOK, Readable
    <3>2. file[f].doc \in Docs
      BY <3>1, SMT DEF FileType
    <3>. QED  BY <1>3, <3>2, Zenon DEF Readable
  <2>3. f \notin F /\ DOMAIN file_states \ (todo \ {f}) = F \cup {f}
    BY <1>0, <2>1, Zenon
  <2>4. Holds(file, file_states, profiles', F \cup {f})
    <3>. HIDE DEF F
    <3>. QED  BY <1>0, <1>3, <2>2, <2>3, HoldsMore, Zenon
  <2>5. Holds(file', file_states', profiles', DOMAIN file_states' \ todo')
    BY <1>1, <1>3, <2>3, <2>4, Zenon DEF SameFiles
  <2>6. Stamped(file_states)'
    BY <1>0, <1>1, <1>3, Zenon DEF Stamped, SameFiles
  <2>7. todo' \subseteq todo
    BY <1>3, Zenon
  <2>8. Scan'
    BY <1>0, <1>3, <2>5, <2>6, <2>7, Zenon DEF Scan
  <2>9. TypeOK'
    BY <1>0, <1>1, <1>3, <2>7, Zenon DEF IInv, TypeOK, SameFiles
  <2>. QED  BY <1>1, <2>8, <2>9, CacheKept, Zenon DEF IInv
<1>. QED  BY <1>2, <1>3, Zenon DEF ReadFile

LEMMA InstallStep ==
  ASSUME IInv, NEW l \in Lookups, Install(l)
  PROVE  IInv'
<1>1. SameFiles /\ EndReload(l)
  BY Zenon DEF Install, fs, config, SameFiles
<1>2. DOMAIN file_states \ todo = DOMAIN file_states
  BY Zenon DEF Install
<1>3. Stamped(file_states) /\ Holds(file, file_states, profiles, DOMAIN file_states)
  BY <1>2, Zenon DEF Install, Reloading, IInv, Scan
<1>4. Loaded'
  BY <1>1, <1>3, Zenon DEF Install, SameFiles, Loaded, Stamped
<1>. QED  BY <1>1, <1>4, Ended, Zenon DEF IInv

-----------------------------------------------------------------------------
(* The invariant holds.                                                    *)

LEMMA Initially ==
  ASSUME Init
  PROVE  IInv
<1>1. PICK docs \in [Files -> Documents] : file = [f \in Files |-> [doc |-> docs[f], stamp |-> 0]]
  BY Zenon DEF Init
<1>2. ASSUME NEW f \in Files
      PROVE  file[f] \in FileType /\ file[f].stamp = 0
  <2>1. docs[f] \in Docs \cup {Broken}
    BY <1>1, Zenon DEF Docs
  <2>2. file[f] = [doc |-> docs[f], stamp |-> 0]
    BY <1>1, Zenon
  <2>. QED  BY <2>1, <2>2, SMT DEF FileType
<1>3. TypeOK
  <2>1. file \in [Files -> {Absent} \cup FileType]
    BY <1>1, <1>2, Zenon
  <2>2. patterns \in Patterns /\ edits \in Nat /\ 0 <= edits
    BY SMT DEF Init, Patterns
  <2>. QED  BY <1>2, <2>1, <2>2, Zenon DEF Init, TypeOK
<1>4. DOMAIN Empty = {}
  BY Zenon DEF Empty
<1>5. Scan /\ Loaded
  BY <1>4, Zenon DEF Init, Scan, Loaded, Stamped
<1>. QED  BY <1>3, <1>5, Zenon DEF IInv

LEMMA Step ==
  ASSUME IInv, [Next]_vars
  PROVE  IInv'
<1>1. ASSUME NEW f \in Files, EditFile(f)
      PROVE  IInv'
  BY <1>1, EditFileStep
<1>2. CASE IntervalPasses \/ UNCHANGED vars \/ Crashed
  <2>1. SameFiles /\ SameCache /\ SameScan
    BY <1>2, Zenon DEF IntervalPasses, Crashed, vars, fs, config, cache, scan, SameFiles, SameCache, SameScan
  <2>. QED  BY <2>1, QuietStep
<1>3. ASSUME NEW l \in Lookups, ConnectCmd(l) \/ Resolve(l) \/ StartProcess(l) \/ Done(l)
      PROVE  IInv'
  <2>1. SameFiles /\ SameCache /\ SameScan
    BY <1>3, Zenon DEF ConnectCmd, Resolve, StartProcess, Done, fs, config, cache, scan,
                       SameFiles, SameCache, SameScan
  <2>. QED  BY <2>1, QuietStep
<1>4. ASSUME NEW l \in Lookups, BeginReload(l) \/ Reload(l)
      PROVE  IInv'
  BY <1>4, BeginReloadStep, GlobStep, StatStep, CompareStep, ReadFileStep, InstallStep, Zenon DEF Reload
<1>. QED  BY <1>1, <1>2, <1>3, <1>4, Zenon DEF Next

\* What a load has read, and what the cache was loaded with, are the documents of
\* files as they were when they were read; one that changed later has another
\* stamp than the one the load took before it read the file.
THEOREM Invariance == Spec => []IInv
<1>1. Init => IInv
  BY Initially
<1>2. IInv /\ [Next]_vars => IInv'
  BY Step
<1>. QED  BY <1>1, <1>2, PTL DEF Spec

\* While the stamps of the files are those the cache was loaded with, the cache
\* holds the profiles of the files as they are: reload_rxc_profiles_if_needed may
\* skip the load, though files change between Stat and Open and loads fail half
\* way, for any number of files, patterns, profiles and lookups.
THEOREM CacheIsCurrent == Spec => []CacheCurrent
<1>1. ASSUME IInv, rxc_profile_loaded, rxc_profile_file_states = [f \in Matched |-> file[f].stamp]
      PROVE  /\ \A f \in Matched : file[f].doc # Broken
             /\ {rxc_profile_map[n] : n \in DOMAIN rxc_profile_map}
                  = UNION {{file[f].doc[i] : i \in DOMAIN file[f].doc} : f \in Matched}
  <2>1. /\ DOMAIN rxc_profile_file_states = Matched
        /\ \A f \in Matched : rxc_profile_file_states[f] = file[f].stamp
    BY <1>1, Zenon
  <2>2. PICK D \in [Matched -> Docs] :
          Agrees(file, D, rxc_profile_file_states, Matched) /\ Contents(rxc_profile_map) = From(D, Matched)
    BY <1>1, <2>1, Zenon DEF IInv, Loaded, Holds
  <2>3. \A f \in Matched : file[f].doc = D[f] /\ file[f] # Absent
    BY <2>1, <2>2, Zenon DEF Agrees, Matched
  <2>4. \A f \in Matched : file[f].doc # Broken
    BY <2>3, Zenon DEF Docs
  <2>5. \A f \in Matched : Profiles(D[f]) = {file[f].doc[i] : i \in DOMAIN file[f].doc}
    BY <2>3, Zenon DEF Profiles
  <2>6. From(D, Matched) = UNION {{file[f].doc[i] : i \in DOMAIN file[f].doc} : f \in Matched}
    <3>1. \A x : x \in From(D, Matched) <=> \E f \in Matched : x \in Profiles(D[f])
      BY Zenon DEF From
    <3>2. \A x : x \in UNION {{file[f].doc[i] : i \in DOMAIN file[f].doc} : f \in Matched}
            <=> \E f \in Matched : x \in {file[f].doc[i] : i \in DOMAIN file[f].doc}
      BY Zenon
    <3>3. \A x : x \in From(D, Matched)
            <=> x \in UNION {{file[f].doc[i] : i \in DOMAIN file[f].doc} : f \in Matched}
      BY <2>5, <3>1, <3>2, Zenon
    <3>. QED  BY <3>3, Zenon
  <2>. QED  BY <2>2, <2>4, <2>6, Zenon DEF Contents
<1>2. IInv => CacheCurrent
  BY <1>1, Zenon DEF CacheCurrent
<1>. QED  BY <1>2, Invariance, PTL
=============================================================================
