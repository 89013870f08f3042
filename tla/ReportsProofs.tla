---------------------------- MODULE ReportsProofs ----------------------------
(***************************************************************************)
(* What is made of the output of others, for every input: the matrices of  *)
(* ci/build_matrix.py, the times of systemd_analyze, the rates of          *)
(* fs_drift, the logs and the averages of the fio wrapper, and the         *)
(* intervals of histogram logs.                                            *)
(***************************************************************************)
EXTENDS MCReports, FoldProofs

(* The build matrix                                                        *)

\* The sequence lists the elements of S, each once.
Lists(s, S) ==
  /\ s \in Seq(S)
  /\ \A e \in S : \E i \in 1..Len(s) : s[i] = e
  /\ \A i, j \in 1..Len(s) : s[i] = s[j] => i = j

\* The entries of a Dockerfile in the two matrices.
BuildEntries(d) ==
  {[dockerfile |-> d, image |-> Benchmark(d), arch |-> arch, changed |-> ImageChanged(d),
    tags |-> {<<tag, arch>> : tag \in Tags}] : arch \in ARCHS}
ManifestEntries(d) ==
  {[dockerfile |-> d, image |-> Benchmark(d), tag |-> tag, changed |-> ImageChanged(d),
    suffixes |-> ARCHS] : tag \in Tags}

\* The Dockerfiles that build has come to, and takes.
Taken == {d \in dockerfile_set \ todo : ImageChanged(d) \/ ~changed_only}

\* Between two calls the matrices are empty; during a call and after it they list the
\* entries of what it took so far.
MatrixIInv ==
  /\ matrixAt \in {"reset", "build", "built"}
  /\ todo \subseteq dockerfile_set
  /\ IF matrixAt = "reset" THEN build_matrix = <<>> /\ manifest_matrix = <<>>
     ELSE /\ Lists(build_matrix, UNION {BuildEntries(d) : d \in Taken})
          /\ Lists(manifest_matrix, UNION {ManifestEntries(d) : d \in Taken})

\* SetToSeq lists a finite set.
LEMMA SetToSeqLists ==
  ASSUME NEW S, IsFiniteSet(S)
  PROVE  Lists(SetToSeq(S), S)
<1>. DEFINE n == Cardinality(S)
            f == SetToSeq(S)
<1>1. n \in Nat /\ ExistsBijection(1..n, S)
  BY FS_CardinalityType
<1>2. f \in [1..n -> S] /\ IsInjective(f)
  <2>1. \E g \in [1..n -> S] : IsInjective(g)
    BY <1>1 DEF ExistsBijection, Bijection, Injection
  <2>. QED BY <2>1 DEF SetToSeq
<1>. HIDE DEF f
<1>3. Cardinality(1..n) = n /\ IsFiniteSet(1..n)
  BY <1>1, FS_Interval
<1>4. f \in Surjection(1..n, S)
  <2>1. f \in Injection(1..n, S)
    BY <1>2 DEF Injection
  <2>. QED BY <1>3, <2>1, FS_Injection
<1>5. \A e \in S : \E i \in 1..n : f[i] = e
  BY <1>4 DEF Surjection
<1>6. \A i, j \in 1..n : f[i] = f[j] => i = j
  BY <1>2 DEF IsInjective
<1>7. f \in Seq(S) /\ Len(f) = n
  BY <1>1, <1>2
<1>8. Lists(f, S)
  <2>. HIDE DEF n
  <2>. QED BY <1>5, <1>6, <1>7 DEF Lists
<1>. QED BY <1>8 DEF f

\* Two lists with nothing in common, one after the other.
LEMMA ListsBoth ==
  ASSUME NEW S, NEW T, S \cap T = {}, NEW s, NEW t, Lists(s, S), Lists(t, T)
  PROVE  Lists(s \o t, S \cup T)
<1>. DEFINE U == S \cup T
            m == Len(s)
            n == Len(t)
            r == s \o t
<1>1. s \in Seq(S) /\ t \in Seq(T) /\ m \in Nat /\ n \in Nat
  BY DEF Lists
<1>2. s \in Seq(U) /\ t \in Seq(U)
  <2>1. \A i \in 1..m : s[i] \in S
    BY <1>1
  <2>2. \A i \in 1..n : t[i] \in T
    BY <1>1
  <2>. QED BY <1>1, <2>1, <2>2
<1>. HIDE DEF U
<1>3. /\ r \in Seq(U) /\ Len(r) = m + n
      /\ \A i \in 1..m : r[i] = s[i]
      /\ \A i \in 1..n : r[m + i] = t[i]
  BY <1>2
<1>. HIDE DEF r
<1>4. ASSUME NEW i \in 1..(m + n) PROVE i \in 1..m \/ (i - m \in 1..n /\ i = m + (i - m))
  BY <1>1
<1>5. ASSUME NEW e \in U PROVE \E i \in 1..Len(r) : r[i] = e
  <2>1. CASE e \in S
    <3>1. PICK i \in 1..m : s[i] = e
      BY <2>1 DEF Lists
    <3>2. i \in 1..(m + n)
      BY <1>1
    <3>. QED BY <1>3, <3>1, <3>2
  <2>2. CASE e \in T
    <3>1. PICK i \in 1..n : t[i] = e
      BY <2>2 DEF Lists
    <3>2. m + i \in 1..(m + n)
      BY <1>1
    <3>. QED BY <1>3, <3>1, <3>2
  <2>. QED BY <2>1, <2>2 DEF U
<1>6. ASSUME NEW i \in 1..m, NEW j \in 1..n PROVE r[i] # r[m + j]
  <2>1. r[i] \in S /\ r[m + j] \in T
    <3>1. s[i] \in S /\ t[j] \in T
      BY <1>1
    <3>. QED BY <1>3, <3>1
  <2>. QED BY <2>1
<1>7. ASSUME NEW i \in 1..(m + n), NEW j \in 1..(m + n), r[i] = r[j] PROVE i = j
  <2>1. CASE i \in 1..m /\ j \in 1..m
    BY <1>3, <1>7, <2>1 DEF Lists
  <2>2. CASE i \in 1..m /\ j \notin 1..m
    BY <1>4, <1>6, <1>7, <2>2
  <2>3. CASE i \notin 1..m /\ j \in 1..m
    BY <1>4, <1>6, <1>7, <2>3
  <2>4. CASE i \notin 1..m /\ j \notin 1..m
    <3>1. i - m \in 1..n /\ j - m \in 1..n /\ i = m + (i - m) /\ j = m + (j - m)
      BY <1>4, <2>4
    <3>2. t[i - m] = t[j - m]
      BY <1>3, <1>7, <3>1
    <3>3. i - m = j - m
      BY <3>1, <3>2 DEF Lists
    <3>. QED BY <3>1, <3>3
  <2>. QED BY <2>1, <2>2, <2>3, <2>4
<1>8. Lists(r, U)
  BY <1>3, <1>5, <1>7 DEF Lists
<1>. QED BY <1>8 DEF r, U

\* The entries of one Dockerfile are finitely many, and differ from those of another.
LEMMA Entries ==
  ASSUME NEW d
  PROVE  /\ IsFiniteSet(BuildEntries(d)) /\ IsFiniteSet(ManifestEntries(d))
         /\ \A e \in BuildEntries(d) : e.dockerfile = d
         /\ \A e \in ManifestEntries(d) : e.dockerfile = d
<1>. DEFINE B(arch) == [dockerfile |-> d, image |-> Benchmark(d), arch |-> arch,
                        changed |-> ImageChanged(d), tags |-> {<<tag, arch>> : tag \in Tags}]
            M(tag) == [dockerfile |-> d, image |-> Benchmark(d), tag |-> tag,
                       changed |-> ImageChanged(d), suffixes |-> ARCHS]
<1>1. \A arch : B(arch).dockerfile = d
  OBVIOUS
<1>2. \A tag : M(tag).dockerfile = d
  OBVIOUS
<1>. HIDE DEF B, M
<1>3. IsFiniteSet({B(arch) : arch \in ARCHS}) /\ IsFiniteSet({M(tag) : tag \in Tags})
  <2>. DEFINE b == [arch \in ARCHS |-> B(arch)]
              m == [tag \in Tags |-> M(tag)]
  <2>1. b \in Surjection(ARCHS, {B(arch) : arch \in ARCHS}) /\ m \in Surjection(Tags, {M(tag) : tag \in Tags})
    BY DEF Surjection
  <2>. HIDE DEF b, m
  <2>. QED BY <2>1, MatrixAssumption, FS_Surjection
<1>4. BuildEntries(d) = {B(arch) : arch \in ARCHS} /\ ManifestEntries(d) = {M(tag) : tag \in Tags}
  BY DEF BuildEntries, ManifestEntries, B, M
<1>. QED BY <1>1, <1>2, <1>3, <1>4

\* A Dockerfile that is taken is added to both lists.
LEMMA EntryAdded ==
  ASSUME MatrixIInv, matrixAt # "reset", NEW d \in todo, ImageChanged(d) \/ ~changed_only
  PROVE  /\ Lists(build_matrix \o BuildJson(d), UNION {BuildEntries(e) : e \in Taken \cup {d}})
         /\ Lists(manifest_matrix \o ManifestJson(d), UNION {ManifestEntries(e) : e \in Taken \cup {d}})
<1>. DEFINE B(D) == UNION {BuildEntries(e) : e \in D}
            M(D) == UNION {ManifestEntries(e) : e \in D}
<1>1. d \notin Taken
  BY DEF Taken
<1>2. Lists(BuildJson(d), BuildEntries(d)) /\ Lists(ManifestJson(d), ManifestEntries(d))
  BY Entries, SetToSeqLists DEF BuildJson, ManifestJson, BuildEntries, ManifestEntries
<1>3. Lists(build_matrix, B(Taken)) /\ Lists(manifest_matrix, M(Taken))
  BY DEF MatrixIInv
<1>4. B(Taken) \cap BuildEntries(d) = {} /\ M(Taken) \cap ManifestEntries(d) = {}
  BY <1>1, Entries
<1>5. B(Taken \cup {d}) = B(Taken) \cup BuildEntries(d) /\ M(Taken \cup {d}) = M(Taken) \cup ManifestEntries(d)
  OBVIOUS
<1>. HIDE DEF B, M
<1>6. /\ Lists(build_matrix \o BuildJson(d), B(Taken) \cup BuildEntries(d))
      /\ Lists(manifest_matrix \o ManifestJson(d), M(Taken) \cup ManifestEntries(d))
  BY <1>2, <1>3, <1>4, ListsBoth
<1>. QED BY <1>5, <1>6 DEF B, M

\* Every step of the builder keeps its invariant.
LEMMA MatrixStep ==
  ASSUME MatrixIInv, [MatrixNext]_matrixVars
  PROVE  MatrixIInv'
<1>1. CASE Build
  <2>1. matrixAt' = "build" /\ todo' = dockerfile_set /\ build_matrix' = <<>> /\ manifest_matrix' = <<>>
    BY <1>1 DEF Build, MatrixIInv
  <2>2. Taken' = {}
    BY <2>1 DEF Taken
  <2>3. Lists(<<>>, {})
    BY DEF Lists
  <2>4. UNION {BuildEntries(d)' : d \in Taken'} = {} /\ UNION {ManifestEntries(d)' : d \in Taken'} = {}
    BY <2>2
  <2>. QED BY <2>1, <2>3, <2>4 DEF MatrixIInv
<1>2. CASE AddEntry
  <2>. PICK d \in todo :
         /\ todo' = todo \ {d}
         /\ IF ImageChanged(d) \/ ~changed_only
            THEN /\ build_matrix' = build_matrix \o BuildJson(d)
                 /\ manifest_matrix' = manifest_matrix \o ManifestJson(d)
            ELSE UNCHANGED <<build_matrix, manifest_matrix>>
    BY <1>2 DEF AddEntry
  <2>1. matrixAt = "build" /\ UNCHANGED <<changed_set, changed_only, matrixAt>>
    BY <1>2 DEF AddEntry
  <2>2. \A e : ImageChanged(e)' = ImageChanged(e)
    BY <2>1 DEF ImageChanged, bones_changed, benchmark_changed
  <2>3. \A e : BuildEntries(e)' = BuildEntries(e) /\ ManifestEntries(e)' = ManifestEntries(e)
    BY <2>2 DEF BuildEntries, ManifestEntries
  <2>4. Taken' = IF ImageChanged(d) \/ ~changed_only THEN Taken \cup {d} ELSE Taken
    BY <2>1, <2>2 DEF Taken, MatrixIInv
  <2>5. /\ Lists(build_matrix', UNION {BuildEntries(e) : e \in Taken'})
        /\ Lists(manifest_matrix', UNION {ManifestEntries(e) : e \in Taken'})
    <3>1. CASE ImageChanged(d) \/ ~changed_only
      BY <2>1, <2>4, <3>1, EntryAdded
    <3>2. CASE ~(ImageChanged(d) \/ ~changed_only)
      BY <2>1, <2>4, <3>2 DEF MatrixIInv
    <3>. QED BY <3>1, <3>2
  <2>. QED BY <2>1, <2>3, <2>5 DEF MatrixIInv
<1>3. CASE Added \/ UNCHANGED matrixVars
  <2>1. /\ UNCHANGED <<changed_set, changed_only, todo, build_matrix, manifest_matrix>>
        /\ matrixAt' \in {matrixAt, "built"} /\ (matrixAt' = "reset" <=> matrixAt = "reset")
    BY <1>3 DEF Added, matrixVars
  <2>2. \A e : ImageChanged(e)' = ImageChanged(e)
    BY <2>1 DEF ImageChanged, bones_changed, benchmark_changed
  <2>3. \A e : BuildEntries(e)' = BuildEntries(e) /\ ManifestEntries(e)' = ManifestEntries(e)
    BY <2>2 DEF BuildEntries, ManifestEntries
  <2>4. Taken' = Taken
    BY <2>1, <2>2 DEF Taken
  <2>. QED BY <2>1, <2>3, <2>4 DEF MatrixIInv
<1>4. CASE Reset
  BY <1>4 DEF Reset, Emptied, MatrixIInv
<1>. QED BY <1>1, <1>2, <1>3, <1>4 DEF MatrixNext

\* Matrices that list the entries of what was taken fit.
LEMMA ListedFit ==
  ASSUME MatrixIInv
  PROVE  MatricesFit
<1>. SUFFICES ASSUME matrixAt = "built" PROVE MatricesFit
  BY DEF MatricesFit
<1>. DEFINE built == {build_matrix[i] : i \in 1..Len(build_matrix)}
            made  == {manifest_matrix[i] : i \in 1..Len(manifest_matrix)}
            Of(m) == {b \in built : b.image = m.image /\ b.dockerfile = m.dockerfile /\ b.changed = m.changed}
            B(d, arch) == [dockerfile |-> d, image |-> Benchmark(d), arch |-> arch,
                           changed |-> ImageChanged(d), tags |-> {<<tag, arch>> : tag \in Tags}]
            M(d, tag) == [dockerfile |-> d, image |-> Benchmark(d), tag |-> tag,
                          changed |-> ImageChanged(d), suffixes |-> ARCHS]
<1>1. ASSUME NEW d, NEW arch
      PROVE  /\ B(d, arch).dockerfile = d /\ B(d, arch).image = Benchmark(d)
             /\ B(d, arch).arch = arch /\ B(d, arch).changed = ImageChanged(d)
             /\ \A tag \in Tags : <<tag, arch>> \in B(d, arch).tags
  OBVIOUS
<1>2. ASSUME NEW d, NEW tag
      PROVE  /\ M(d, tag).dockerfile = d /\ M(d, tag).image = Benchmark(d)
             /\ M(d, tag).tag = tag /\ M(d, tag).changed = ImageChanged(d)
  OBVIOUS
<1>3. /\ UNION {BuildEntries(d) : d \in Taken} = UNION {{B(d, arch) : arch \in ARCHS} : d \in Taken}
      /\ UNION {ManifestEntries(d) : d \in Taken} = UNION {{M(d, tag) : tag \in Tags} : d \in Taken}
  BY DEF BuildEntries, ManifestEntries
<1>. HIDE DEF B, M
<1>4. /\ \A i \in 1..Len(build_matrix) : \E d \in Taken, arch \in ARCHS : build_matrix[i] = B(d, arch)
      /\ \A d \in Taken, arch \in ARCHS : \E i \in 1..Len(build_matrix) : build_matrix[i] = B(d, arch)
      /\ \A i, j \in 1..Len(build_matrix) : build_matrix[i] = build_matrix[j] => i = j
  <2>. DEFINE S == UNION {{B(d, arch) : arch \in ARCHS} : d \in Taken}
  <2>1. Lists(build_matrix, S)
    BY <1>3 DEF MatrixIInv
  <2>2. \A e : e \in S <=> \E d \in Taken, arch \in ARCHS : e = B(d, arch)
    OBVIOUS
  <2>. HIDE DEF S
  <2>3. \A i \in 1..Len(build_matrix) : build_matrix[i] \in S
    BY <2>1 DEF Lists
  <2>. QED BY <2>1, <2>2, <2>3 DEF Lists
<1>5. /\ \A i \in 1..Len(manifest_matrix) : \E d \in Taken, tag \in Tags : manifest_matrix[i] = M(d, tag)
      /\ \A d \in Taken, tag \in Tags : \E i \in 1..Len(manifest_matrix) : manifest_matrix[i] = M(d, tag)
      /\ \A i, j \in 1..Len(manifest_matrix) : manifest_matrix[i] = manifest_matrix[j] => i = j
  <2>. DEFINE S == UNION {{M(d, tag) : tag \in Tags} : d \in Taken}
  <2>1. Lists(manifest_matrix, S)
    BY <1>3 DEF MatrixIInv
  <2>2. \A e : e \in S <=> \E d \in Taken, tag \in Tags : e = M(d, tag)
    OBVIOUS
  <2>. HIDE DEF S
  <2>3. \A i \in 1..Len(manifest_matrix) : manifest_matrix[i] \in S
    BY <2>1 DEF Lists
  <2>. QED BY <2>1, <2>2, <2>3 DEF Lists
<1>6. ASSUME NEW d \in Taken, NEW e \in Taken, Benchmark(d) = Benchmark(e) PROVE d = e
  BY <1>6, MatrixAssumption DEF Taken
<1>7. ASSUME NEW i \in 1..Len(build_matrix), NEW j \in 1..Len(build_matrix), i # j,
             build_matrix[i].image = build_matrix[j].image, build_matrix[i].arch = build_matrix[j].arch
      PROVE  FALSE
  <2>1. PICK d \in Taken, arch \in ARCHS : build_matrix[i] = B(d, arch)
    BY <1>4
  <2>2. PICK e \in Taken, other \in ARCHS : build_matrix[j] = B(e, other)
    BY <1>4
  <2>3. arch = other /\ d = e
    BY <1>1, <1>6, <1>7, <2>1, <2>2
  <2>. QED BY <1>4, <1>7, <2>1, <2>2, <2>3
<1>8. ASSUME NEW m \in made, NEW arch \in ARCHS
      PROVE  \E b \in Of(m) : b.arch = arch /\ <<m.tag, arch>> \in b.tags
  <2>1. PICK d \in Taken, tag \in Tags : m = M(d, tag)
    BY <1>5
  <2>2. B(d, arch) \in built
    BY <1>4
  <2>3. B(d, arch) \in Of(m)
    BY <1>1, <1>2, <2>1, <2>2
  <2>4. B(d, arch).arch = arch /\ <<m.tag, arch>> \in B(d, arch).tags
    BY <1>1, <1>2, <2>1
  <2>. QED BY <2>3, <2>4
<1>9. ASSUME NEW b \in built, NEW tag \in Tags
      PROVE  Cardinality({i \in 1..Len(manifest_matrix) :
                            manifest_matrix[i].tag = tag /\ b \in Of(manifest_matrix[i])}) = 1
  <2>1. PICK d \in Taken, arch \in ARCHS : b = B(d, arch)
    BY <1>4
  <2>2. PICK k \in 1..Len(manifest_matrix) : manifest_matrix[k] = M(d, tag)
    BY <1>5
  <2>3. manifest_matrix[k].tag = tag /\ b \in Of(manifest_matrix[k])
    BY <1>1, <1>2, <2>1, <2>2
  <2>4. ASSUME NEW i \in 1..Len(manifest_matrix), manifest_matrix[i].tag = tag, b \in Of(manifest_matrix[i])
        PROVE  i = k
    <3>1. PICK e \in Taken, other \in Tags : manifest_matrix[i] = M(e, other)
      BY <1>5
    <3>2. b.dockerfile = manifest_matrix[i].dockerfile
      BY <2>4
    <3>3. e = d /\ other = tag
      BY <1>1, <1>2, <2>1, <2>4, <3>1, <3>2
    <3>. QED BY <1>5, <2>2, <3>1, <3>3
  <2>5. {i \in 1..Len(manifest_matrix) : manifest_matrix[i].tag = tag /\ b \in Of(manifest_matrix[i])} = {k}
    <3>. HIDE DEF Of
    <3>. QED BY <2>3, <2>4
  <2>. QED BY <2>5, FS_Singleton
<1>10. ASSUME changed_only, NEW b \in built PROVE b.changed
  <2>1. PICK d \in Taken, arch \in ARCHS : b = B(d, arch)
    BY <1>4
  <2>. QED BY <1>1, <1>10, <2>1 DEF Taken
<1>. QED BY <1>7, <1>8, <1>9, <1>10 DEF MatricesFit

\* build and reset keep the two matrices fitting, however often the builder is used.
\* (ci/build_matrix.py: MatrixBuilder)
THEOREM MatricesAlwaysFit == Spec => []MatricesFit
<1>1. Init => MatrixIInv
  BY DEF Init, MatrixInit, MatrixIInv
<1>2. MatrixIInv /\ [Next]_vars => MatrixIInv'
  <2>1. [Next]_vars => [MatrixNext]_matrixVars
    BY DEF Next, Fio, Histogram, Drift, Blame, Matrix, vars, otherVars
  <2>. QED BY <2>1, MatrixStep
<1>. QED BY <1>1, <1>2, ListedFit, PTL DEF Spec
-----------------------------------------------------------------------------
(* The times of the services                                               *)

Times  == Nat \cup {Unset}
Points == [name : Nat, time : Times]

\* The time of line k, after the line before it.
TimeOfLine(list, k) ==
  Told(boot[k], list[k].time, IF k > 1 THEN list[k - 1].time ELSE Unset)

\* What the turn of line i appends.
OfLine(list, i) ==
  IF i <= Len(boot) THEN list[i].name = i /\ TimeOfLine(list, i)
  ELSE i = Len(boot) + 1 /\ i > 1 /\ list[i] = list[i - 1]

BlameTypeOK ==
  /\ blameAt \in {"setup", "time", "blame", "points", "ok", "raised"}
  /\ boot \in Seq(Nat \ {0}) /\ line \in Nat \ {0}
  /\ etime \in Times /\ point \in Points
  /\ blame_list \in Seq(Points) /\ yielded \in Seq(Points)

\* etime and the data point are carried from line to line: they are those of the last
\* line that was read, or unset before the first.
Carried ==
  blameAt \in {"setup", "time", "blame"} =>
    /\ Len(blame_list) = line - 1 /\ line <= Len(boot) + 2 /\ yielded = <<>>
    /\ IF line = 1 THEN etime = Unset /\ point = NoPoint
       ELSE point = blame_list[line - 1] /\ etime = point.time /\ etime # Unset

ListOfLines ==
  blameAt # "raised" => \A i \in 1..Len(blame_list) : OfLine(blame_list, i)

InOrder ==
  blameAt \in {"points", "ok"} =>
    /\ Len(blame_list) = Len(boot) + 1 /\ Len(yielded) <= Len(blame_list)
    /\ \A i \in 1..Len(yielded) : yielded[i] = blame_list[i]
    /\ blameAt = "ok" => Len(yielded) = Len(blame_list)

BlameIInv == BlameTypeOK /\ Carried /\ ListOfLines /\ InOrder

\* What the three expressions find in the time of a service.
LEMMA EtimeFound ==
  ASSUME NEW t \in Nat \ {0}, etime \in Times
  PROVE  Etime(t) \in Times /\ (Etime(t) # Unset => Told(t, Etime(t), etime))
<1>. DEFINE u == t % Hour
            m == u \div 60000
            r == t % 60000
<1>h. Hour = 3600000
  BY DEF Hour
<1>0. u \in Nat /\ u < 3600000 /\ (t < Hour => u = t)
  BY <1>h
<1>1. m \in Nat /\ r \in 0..59999 /\ u = m * 60000 + r /\ (u >= 60000 <=> m # 0)
  <2>1. u % 60000 = r
    <3>1. PICK k \in Nat : t = k * 3600000 + u
      BY <1>h, <1>0
    <3>2. t = (60 * k) * 60000 + u
      BY <3>1, <1>0
    <3>. QED BY <3>2, <3>1, <1>0
  <2>. HIDE DEF u
  <2>. QED BY <1>0, <2>1
<1>2. Minutes(t) = IF m # 0 THEN m ELSE -1
  BY <1>1 DEF Minutes, Unset
<1>3. Millisec(t) = IF r \in 1..999 THEN r ELSE -1
  BY DEF Millisec, Unset
<1>4. Seconds(t) \in {r, -1} /\ (Seconds(t) # -1 => r > 1000)
  BY <1>1 DEF Seconds, Unset
<1>. HIDE DEF m, r, u
<1>a. u = t % Hour /\ r = t % 60000
  BY DEF u, r
<1>5. CASE Seconds(t) # -1
  <2>1. Etime(t) = r + (IF m # 0 THEN m * 60000 ELSE 0)
    BY <1>1, <1>2, <1>4, <1>5 DEF Etime, EtimeOf, Unset
  <2>2. Etime(t) = u
    BY <1>1, <2>1
  <2>3. t < 1000 => t < Hour
    BY <1>h
  <2>. QED BY <1>0, <1>5, <1>a, <2>2, <2>3 DEF Readable, Matched, Told, Unset, Times
<1>6. CASE Seconds(t) = -1 /\ Millisec(t) # -1
  <2>1. Etime(t) = r /\ r \in 1..999
    BY <1>3, <1>6 DEF Etime, EtimeOf, Unset
  <2>2. t < 1000 => r = t
    BY <1>a
  <2>. QED BY <1>6, <1>a, <2>1, <2>2 DEF Readable, Matched, Told, Unset, Times
<1>7. CASE Seconds(t) = -1 /\ Millisec(t) = -1
  <2>1. Etime(t) = etime
    BY <1>7 DEF Etime, EtimeOf, Unset
  <2>2. t < 1000 => r = t /\ r \in 1..999
    BY <1>a
  <2>3. ~(t < 1000)
    BY <1>3, <1>7, <2>2
  <2>. QED BY <1>7, <2>1, <2>3 DEF Readable, Matched, Told, Unset, Times
<1>. QED BY <1>5, <1>6, <1>7

\* Appending a data point changes nothing of the lines before.
LEMMA PointAppended ==
  ASSUME NEW list \in Seq(Points), NEW e \in Points, boot \in Seq(Nat \ {0}),
         \A i \in 1..Len(list) : OfLine(list, i),
         OfLine(Append(list, e), Len(list) + 1)
  PROVE  /\ Append(list, e) \in Seq(Points) /\ Len(Append(list, e)) = Len(list) + 1
         /\ Append(list, e)[Len(list) + 1] = e
         /\ \A i \in 1..Len(Append(list, e)) : OfLine(Append(list, e), i)
<1>. DEFINE more == Append(list, e)
<1>1. /\ more \in Seq(Points) /\ Len(more) = Len(list) + 1 /\ more[Len(list) + 1] = e
      /\ \A i \in 1..Len(list) : more[i] = list[i]
      /\ Len(list) \in Nat
  OBVIOUS
<1>. HIDE DEF more
<1>2. ASSUME NEW i \in 1..Len(list) PROVE OfLine(more, i)
  <2>1. more[i] = list[i] /\ (i > 1 => more[i - 1] = list[i - 1])
    BY <1>1
  <2>2. OfLine(list, i)
    OBVIOUS
  <2>3. CASE i = 1
    BY <2>1, <2>2, <2>3 DEF OfLine, TimeOfLine
  <2>4. CASE i > 1
    BY <2>1, <2>2, <2>4 DEF OfLine, TimeOfLine
  <2>. QED BY <1>1, <2>3, <2>4
<1>3. ASSUME NEW i \in 1..Len(more) PROVE i \in 1..Len(list) \/ i = Len(list) + 1
  BY <1>1
<1>4. OfLine(more, Len(list) + 1)
  BY DEF more
<1>. QED BY <1>1, <1>2, <1>3, <1>4 DEF more

\* One turn of the loop.
LEMMA BlameTurn ==
  ASSUME BlameIInv, BlameLine
  PROVE  BlameIInv'
<1>. DEFINE n == Len(boot)
<1>1. /\ blameAt = "blame" /\ line <= n + 1 /\ line' = line + 1
      /\ boot' = boot /\ yielded' = yielded
  BY DEF BlameLine
<1>2. /\ boot \in Seq(Nat \ {0}) /\ n \in Nat /\ line \in Nat \ {0} /\ etime \in Times /\ point \in Points
      /\ blame_list \in Seq(Points) /\ yielded \in Seq(Points)
      /\ Len(blame_list) = line - 1 /\ line <= n + 2 /\ yielded = <<>>
      /\ \A i \in 1..Len(blame_list) : OfLine(blame_list, i)
  BY <1>1 DEF BlameIInv, BlameTypeOK, Carried, ListOfLines
<1>3. etime' \in Times /\ point' \in Points
      /\ (point'.time # Unset => etime' = point'.time /\ OfLine(Append(blame_list, point'), line))
  <2>. DEFINE more == Append(blame_list, point')
  <2>1. /\ point' \in Points => more[line] = point'
        /\ line > 1 /\ point' \in Points => more[line - 1] = blame_list[line - 1]
    BY <1>2
  <2>. HIDE DEF more
  <2>2. CASE line <= n
    <3>1. boot[line] \in Nat \ {0}
      BY <1>2, <2>2
    <3>2. etime' = Etime(boot[line]) /\ point' = [name |-> line, time |-> etime']
      BY <2>2 DEF BlameLine, HasService
    <3>3. etime' \in Times /\ (etime' # Unset => Told(boot[line], etime', etime))
      BY <1>2, <3>1, <3>2, EtimeFound
    <3>4. point' \in Points /\ point'.time = etime' /\ point'.name = line
      BY <1>2, <3>2, <3>3 DEF Points
    <3>5. etime = IF line > 1 THEN blame_list[line - 1].time ELSE Unset
      BY <1>1, <1>2 DEF BlameIInv, Carried
    <3>6. point'.time # Unset => OfLine(more, line)
      BY <1>2, <2>1, <2>2, <3>3, <3>4, <3>5 DEF OfLine, TimeOfLine
    <3>. QED BY <3>3, <3>4, <3>6 DEF more
  <2>3. CASE line = n + 1
    <3>1. etime' = etime /\ point' = point
      BY <1>2, <2>3 DEF BlameLine, HasService
    <3>2. line = 1 => point.time = Unset
      BY <1>1 DEF BlameIInv, Carried, NoPoint
    <3>3. line > 1 => point = blame_list[line - 1] /\ etime = point.time
      BY <1>1 DEF BlameIInv, Carried
    <3>4. point'.time # Unset => OfLine(more, line)
      BY <1>2, <2>1, <2>3, <3>1, <3>2, <3>3 DEF OfLine
    <3>. QED BY <1>2, <3>1, <3>2, <3>3, <3>4 DEF more
  <2>. QED BY <1>1, <1>2, <2>2, <2>3
<1>4. CASE point'.time = Unset
  <2>1. blameAt' = "raised" /\ blame_list' = blame_list
    BY <1>4 DEF BlameLine
  <2>. QED BY <1>1, <1>2, <1>3, <2>1 DEF BlameIInv, BlameTypeOK, Carried, ListOfLines, InOrder
<1>5. CASE point'.time # Unset
  <2>1. blameAt' = "blame" /\ blame_list' = Append(blame_list, point')
    BY <1>1, <1>5 DEF BlameLine
  <2>2. /\ blame_list' \in Seq(Points) /\ Len(blame_list') = line
        /\ blame_list'[line] = point'
        /\ \A i \in 1..Len(blame_list') : OfLine(blame_list', i)
    <3>. DEFINE e == point'
    <3>1. e \in Points /\ OfLine(Append(blame_list, e), Len(blame_list) + 1) /\ Len(blame_list) + 1 = line
      BY <1>2, <1>3, <1>5
    <3>. HIDE DEF e
    <3>2. /\ Append(blame_list, e) \in Seq(Points) /\ Len(Append(blame_list, e)) = Len(blame_list) + 1
          /\ Append(blame_list, e)[Len(blame_list) + 1] = e
          /\ \A i \in 1..Len(Append(blame_list, e)) : OfLine(Append(blame_list, e), i)
      BY <1>2, <3>1, PointAppended
    <3>. QED BY <2>1, <3>1, <3>2 DEF e
  <2>3. BlameTypeOK'
    BY <1>1, <1>2, <1>3, <2>1, <2>2 DEF BlameTypeOK
  <2>4. Carried'
    <3>1. line' # 1 /\ line' - 1 = line /\ line' <= Len(boot) + 2
      BY <1>1, <1>2
    <3>. QED BY <1>1, <1>2, <1>3, <1>5, <2>2, <3>1 DEF Carried
  <2>5. ListOfLines'
    <3>1. ASSUME NEW i PROVE OfLine(blame_list, i)' <=> OfLine(blame_list', i)
      BY <1>1 DEF OfLine, TimeOfLine
    <3>. QED BY <2>2, <3>1 DEF ListOfLines
  <2>6. InOrder'
    BY <2>1 DEF InOrder
  <2>. QED BY <2>3, <2>4, <2>5, <2>6 DEF BlameIInv
<1>. QED BY <1>4, <1>5

\* Every step of systemd_analyze keeps its invariant.
LEMMA BlameStep ==
  ASSUME BlameIInv, [BlameNext]_blameVars
  PROVE  BlameIInv'
<1>1. CASE BlameLine
  BY <1>1, BlameTurn
<1>2. CASE Setup \/ CollectTime \/ UNCHANGED blameVars
  <2>1. /\ UNCHANGED <<boot, line, etime, point, blame_list, yielded>>
        /\ \/ blameAt' = blameAt
           \/ blameAt \in {"setup", "time"} /\ blameAt' \in {"time", "blame", "raised"}
    BY <1>2 DEF Setup, CollectTime, blameVars
  <2>2. \A i : OfLine(blame_list, i)' <=> OfLine(blame_list, i)
    BY <2>1 DEF OfLine, TimeOfLine
  <2>. QED BY <2>1, <2>2 DEF BlameIInv, BlameTypeOK, Carried, ListOfLines, InOrder
<1>3. CASE EndOfBlame
  <2>1. /\ UNCHANGED <<boot, line, etime, point, blame_list, yielded>>
        /\ blameAt = "blame" /\ blameAt' = "points" /\ line > Len(boot) + 1
    BY <1>3 DEF EndOfBlame
  <2>2. \A i : OfLine(blame_list, i)' <=> OfLine(blame_list, i)
    BY <2>1 DEF OfLine, TimeOfLine
  <2>3. /\ boot \in Seq(Nat \ {0}) /\ line \in Nat /\ line <= Len(boot) + 2
        /\ Len(blame_list) = line - 1 /\ yielded = <<>>
    BY <2>1 DEF BlameIInv, BlameTypeOK, Carried
  <2>4. Len(blame_list) = Len(boot) + 1 /\ Len(yielded) = 0 /\ Len(boot) \in Nat
    BY <2>1, <2>3
  <2>5. InOrder'
    BY <2>1, <2>3, <2>4 DEF InOrder
  <2>. QED BY <2>1, <2>2, <2>5 DEF BlameIInv, BlameTypeOK, Carried, ListOfLines
<1>4. CASE YieldPoint
  <2>1. /\ UNCHANGED <<boot, line, etime, point, blame_list>>
        /\ blameAt = "points" /\ blameAt' \in {"points", "ok"}
    BY <1>4 DEF YieldPoint, BlameIInv, BlameTypeOK
  <2>2. \A i : OfLine(blame_list, i)' <=> OfLine(blame_list, i)
    BY <2>1 DEF OfLine, TimeOfLine
  <2>3. /\ boot \in Seq(Nat \ {0}) /\ blame_list \in Seq(Points) /\ yielded \in Seq(Points)
        /\ Len(blame_list) = Len(boot) + 1 /\ Len(yielded) <= Len(blame_list)
        /\ \A i \in 1..Len(yielded) : yielded[i] = blame_list[i]
    BY <2>1 DEF BlameIInv, BlameTypeOK, InOrder
  <2>4. CASE Len(yielded) < Len(blame_list)
    <3>. DEFINE k == Len(yielded) + 1
                e == blame_list[k]
    <3>1. yielded' = Append(yielded, e) /\ blameAt' = "points"
      BY <1>4, <2>1, <2>4 DEF YieldPoint
    <3>2. k \in 1..Len(blame_list) /\ e \in Points
      BY <2>3, <2>4
    <3>. HIDE DEF e
    <3>3. /\ Append(yielded, e) \in Seq(Points) /\ Len(Append(yielded, e)) = k
          /\ Append(yielded, e)[k] = e
          /\ \A i \in 1..Len(yielded) : Append(yielded, e)[i] = yielded[i]
      BY <2>3, <3>2
    <3>4. \A i \in 1..k : Append(yielded, e)[i] = blame_list[i]
      <4>1. \A i \in 1..k : i \in 1..Len(yielded) \/ i = k
        BY <2>3
      <4>. QED BY <2>3, <3>3, <4>1 DEF e
    <3>5. InOrder'
      <4>. HIDE DEF k
      <4>. QED BY <2>1, <2>3, <3>1, <3>2, <3>3, <3>4 DEF InOrder
    <3>6. yielded' \in Seq(Points)
      BY <3>1, <3>3
    <3>. QED BY <2>1, <2>2, <3>1, <3>5, <3>6 DEF BlameIInv, BlameTypeOK, Carried, ListOfLines
  <2>5. CASE ~(Len(yielded) < Len(blame_list))
    <3>1. blameAt' = "ok" /\ yielded' = yielded
      BY <1>4, <2>5 DEF YieldPoint
    <3>. QED BY <2>1, <2>2, <2>3, <2>5, <3>1 DEF BlameIInv, BlameTypeOK, Carried, ListOfLines, InOrder
  <2>. QED BY <2>4, <2>5
<1>. QED BY <1>1, <1>2, <1>3, <1>4 DEF BlameNext

\* When everything was yielded, it is what the invariant says of the list.
LEMMA ListYielded ==
  ASSUME BlameIInv
  PROVE  BlameOfItsLine
<1>. SUFFICES ASSUME blameAt = "ok" PROVE BlameOfItsLine
  BY DEF BlameOfItsLine
<1>. DEFINE n == Len(boot)
<1>1. n \in Nat
  BY DEF BlameIInv, BlameTypeOK
<1>2. /\ Len(blame_list) = n + 1 /\ Len(yielded) = n + 1
      /\ \A i \in 1..(n + 1) : yielded[i] = blame_list[i]
      /\ \A i \in 1..(n + 1) : OfLine(blame_list, i)
  BY DEF BlameIInv, InOrder, ListOfLines
<1>. HIDE DEF n
<1>3. ASSUME NEW i \in 1..(n + 1) PROVE OfLine(yielded, i)
  <2>1. OfLine(blame_list, i)
    BY <1>2
  <2>2. i = 1 \/ i - 1 \in 1..(n + 1)
    BY <1>1
  <2>3. yielded[i] = blame_list[i] /\ (i # 1 => yielded[i - 1] = blame_list[i - 1])
    BY <1>2, <2>2
  <2>4. CASE i = 1
    BY <2>1, <2>3, <2>4 DEF OfLine, TimeOfLine
  <2>5. CASE i # 1
    BY <2>1, <2>3, <2>5 DEF OfLine, TimeOfLine
  <2>. QED BY <2>4, <2>5
<1>4. ASSUME NEW i \in 1..(n + 1)
      PROVE  LET k == IF i <= n THEN i ELSE n IN
             /\ yielded[i].name = k
             /\ Told(boot[k], yielded[i].time, IF k > 1 THEN yielded[k - 1].time ELSE Unset)
  <2>1. CASE i <= n
    BY <1>3, <2>1 DEF OfLine, TimeOfLine, n
  <2>2. CASE ~(i <= n)
    <3>1. i = n + 1 /\ i > 1 /\ yielded[i] = yielded[i - 1] /\ i - 1 = n
      BY <1>1, <1>3, <2>2 DEF OfLine, n
    <3>2. n \in 1..(n + 1) /\ n <= n
      BY <1>1, <3>1
    <3>3. yielded[n].name = n /\ TimeOfLine(yielded, n)
      BY <1>3, <3>2 DEF OfLine, n
    <3>. QED BY <2>2, <3>1, <3>3 DEF TimeOfLine
  <2>. QED BY <2>1, <2>2
<1>. QED BY <1>2, <1>4 DEF BlameOfItsLine, n

\* A service whose line can be read, which is one with decimals under an hour or one under a
\* second, is reported with the time of that line whatever stood before it; another, with
\* a part of its time or, when nothing is found in its line, with what was reported for the
\* service before it.  (snafu/benchmarks/systemd_analyze: collect)
THEOREM TimesOfTheirLines == Spec => []BlameOfItsLine
<1>1. Init => BlameIInv
  <2>. SUFFICES ASSUME Init PROVE BlameIInv
    OBVIOUS
  <2>1. BlameInit
    BY DEF Init
  <2>2. boot \in Seq(Nat \ {0})
    <3>1. PICK k \in 0..Services : boot \in [1..k -> Durations]
      BY <2>1 DEF BlameInit
    <3>2. k \in Nat
      BY BlameAssumption
    <3>3. \A i \in 1..k : boot[i] \in Nat \ {0}
      BY <3>1, BlameAssumption
    <3>. QED BY <3>1, <3>2, <3>3
  <2>3. 0 \in Nat /\ -1 \in Times /\ [name |-> 0, time |-> -1] \in Points
    BY DEF Times, Points, Unset
  <2>4. Len(blame_list) = 0 /\ blame_list \in Seq(Points) /\ yielded \in Seq(Points) /\ Len(boot) \in Nat
    BY <2>1, <2>2 DEF BlameInit
  <2>. QED BY <2>1, <2>2, <2>3, <2>4
           DEF BlameInit, BlameIInv, BlameTypeOK, Carried, ListOfLines, InOrder, NoPoint, Unset
<1>2. BlameIInv /\ [Next]_vars => BlameIInv'
  <2>1. [Next]_vars => [BlameNext]_blameVars
    BY DEF Next, Fio, Histogram, Drift, Blame, Matrix, vars, otherVars
  <2>. QED BY <2>1, BlameStep
<1>. QED BY <1>1, <1>2, ListYielded, PTL DEF Spec
-----------------------------------------------------------------------------
(* The rates of fs_drift                                                   *)

Snapshots == [elapsed : Nat, count : Nat]

\* A log, with nothing before its first snapshot.
Before(log, i) == IF i = 1 THEN NoSnapshot ELSE log[i - 1]

\* The differences of successive values, in a log that begins with nothing, add up to the
\* last value: of the counter, and of the time.
LEMMA RatesAddUp ==
  ASSUME NEW log \in Seq(Snapshots), log # <<>>, NEW doc, doc.of.log = log,
         doc.rates = Rates(log, NoSnapshot)
  PROVE  /\ Len(doc.rates) = Len(log)
         /\ SumFunction([i \in 1..Len(log) |-> doc.rates[i].diff]) = log[Len(log)].count
         /\ SumFunction([i \in 1..Len(log) |-> doc.rates[i].delta]) = log[Len(log)].elapsed
<1>. DEFINE n == Len(log)
            rates == doc.rates
<1>1. n \in Nat \ {0} /\ \A i \in 1..n : log[i] \in Snapshots
  BY EmptySeq
<1>2. ASSUME NEW i \in 1..n
      PROVE  /\ Before(log, i) \in Snapshots
             /\ rates[i].diff = log[i].count - Before(log, i).count
             /\ rates[i].delta = log[i].elapsed - Before(log, i).elapsed
  <2>1. i = 1 \/ i - 1 \in 1..n
    BY <1>1
  <2>2. Before(log, i) \in Snapshots
    BY <1>1, <2>1 DEF Before, NoSnapshot, Snapshots
  <2>. QED BY <2>2 DEF Rates, Before
<1>3. Len(rates) = n
  BY <1>1 DEF Rates
<1>. HIDE DEF rates
<1>4. IsFiniteSet(1..n)
  BY <1>1, FS_Interval
<1>5. SumFunction([i \in 1..n |-> rates[i].diff]) = log[n].count
  <2>. DEFINE f == [i \in 1..n |-> rates[i].diff]
              g == [i \in 0..n |-> IF i = 0 THEN 0 ELSE log[i].count]
  <2>1. Summable(f, 1..n)
    <3>1. ASSUME NEW i \in 1..n PROVE rates[i].diff \in Int
      <4>1. log[i].count \in Nat /\ Before(log, i).count \in Nat
        BY <1>1, <1>2 DEF Snapshots
      <4>. QED BY <1>2, <4>1
    <3>. QED BY <1>4, <3>1 DEF Summable
  <2>2. g \in [0..n -> Int] /\ g[0] = 0 /\ g[n] = log[n].count
    <3>1. \A i \in 1..n : log[i].count \in Int
      BY <1>1 DEF Snapshots
    <3>. QED BY <1>1, <3>1
  <2>3. ASSUME NEW i \in 1..n PROVE f[i] = g[i] - g[i - 1]
    <3>1. f[i] = log[i].count - Before(log, i).count
      BY <1>2
    <3>2. g[i] = log[i].count /\ g[i - 1] = Before(log, i).count
      BY <1>1 DEF Before, NoSnapshot
    <3>. HIDE DEF f, g
    <3>. QED BY <3>1, <3>2
  <2>. HIDE DEF f, g
  <2>4. Steps(g, f, n)
    BY <1>1, <2>2, <2>3 DEF Steps
  <2>5. SumFunction(f) = g[n]
    BY <2>1, <2>4, SumTelescopes
  <2>. QED BY <2>2, <2>5 DEF f
<1>6. SumFunction([i \in 1..n |-> rates[i].delta]) = log[n].elapsed
  <2>. DEFINE f == [i \in 1..n |-> rates[i].delta]
              g == [i \in 0..n |-> IF i = 0 THEN 0 ELSE log[i].elapsed]
  <2>1. Summable(f, 1..n)
    <3>1. ASSUME NEW i \in 1..n PROVE rates[i].delta \in Int
      <4>1. log[i].elapsed \in Nat /\ Before(log, i).elapsed \in Nat
        BY <1>1, <1>2 DEF Snapshots
      <4>. QED BY <1>2, <4>1
    <3>. QED BY <1>4, <3>1 DEF Summable
  <2>2. g \in [0..n -> Int] /\ g[0] = 0 /\ g[n] = log[n].elapsed
    <3>1. \A i \in 1..n : log[i].elapsed \in Int
      BY <1>1 DEF Snapshots
    <3>. QED BY <1>1, <3>1
  <2>3. ASSUME NEW i \in 1..n PROVE f[i] = g[i] - g[i - 1]
    <3>1. f[i] = log[i].elapsed - Before(log, i).elapsed
      BY <1>2
    <3>2. g[i] = log[i].elapsed /\ g[i - 1] = Before(log, i).elapsed
      BY <1>1 DEF Before, NoSnapshot
    <3>. HIDE DEF f, g
    <3>. QED BY <3>1, <3>2
  <2>. HIDE DEF f, g
  <2>4. Steps(g, f, n)
    BY <1>1, <2>2, <2>3 DEF Steps
  <2>5. SumFunction(f) = g[n]
    BY <2>1, <2>4, SumTelescopes
  <2>. QED BY <2>2, <2>5 DEF f
<1>. QED BY <1>3, <1>5, <1>6 DEF rates

\* What a pod makes of a log without a break adds up, and of another nothing is said.
LEMMA KeptAddUp ==
  ASSUME NEW doc, doc.of.log \in Seq(Snapshots),
         doc.rates = SubSeq(Rates(doc.of.log, NoSnapshot), 1,
                            Cardinality(Asserted(Rates(doc.of.log, NoSnapshot))))
  PROVE  AddUp(doc)
<1>. DEFINE log == doc.of.log
            all == Rates(log, NoSnapshot)
            Gap(i) == log[i].elapsed - (IF i = 1 THEN 0 ELSE log[i - 1].elapsed)
<1>1. SUFFICES ASSUME \A i \in 1..Len(log) : Gap(i) > 1, log # <<>>
               PROVE  /\ Len(doc.rates) = Len(log)
                      /\ SumFunction([i \in 1..Len(log) |-> doc.rates[i].diff]) = log[Len(log)].count
                      /\ SumFunction([i \in 1..Len(log) |-> doc.rates[i].delta]) = log[Len(log)].elapsed
  BY DEF AddUp
<1>2. doc.rates = all
  <2>. DEFINE n == Len(log)
  <2>1. n \in Nat /\ \A i \in 1..n : log[i] \in Snapshots
    OBVIOUS
  <2>2. all = [i \in 1..n |-> [delta |-> log[i].elapsed - Before(log, i).elapsed,
                               diff |-> log[i].count - Before(log, i).count]]
    BY DEF Rates, Before
  <2>3. Len(all) = n /\ DOMAIN all = 1..n
    BY <2>1, <2>2
  <2>4. ASSUME NEW j \in 1..n PROVE all[j].delta > 1
    <3>1. Gap(j) > 1 /\ all[j].delta = log[j].elapsed - Before(log, j).elapsed
      BY <1>1, <2>2
    <3>2. Before(log, j).elapsed = IF j = 1 THEN 0 ELSE log[j - 1].elapsed
      BY DEF Before, NoSnapshot
    <3>. HIDE DEF all, log
    <3>. QED BY <3>1, <3>2
  <2>5. Asserted(all) = 1..n
    <3>. HIDE DEF all, log, n
    <3>1. ASSUME NEW i \in 1..n, NEW j \in 1..i PROVE all[j].delta > 1
      BY <2>1, <2>4
    <3>. QED BY <2>3, <3>1 DEF Asserted
  <2>6. Cardinality(1..n) = n
    BY <2>1, FS_Interval
  <2>7. SubSeq(all, 1, n) = all
    <3>1. SubSeq(all, 1, n) = [i \in 1..n |-> all[i]]
      BY <2>1, <2>3
    <3>2. all = [i \in 1..n |-> all[i]]
      BY <2>2
    <3>. QED BY <3>1, <3>2
  <2>. HIDE DEF all, log, n
  <2>. QED BY <2>5, <2>6, <2>7 DEF all, log
<1>. QED BY <1>1, <1>2, RatesAddUp

Counters == {f \in shared : f.kind = "counters"}
Own(p)   == {f \in Counters : f.pod = p}
Docs(p)  == drift[p].docs
Read(p, s, t) == \E doc \in Docs(p) : doc.sample = s /\ doc.of.thread = t

\* The fields of a pod's state, the sample it is at, and the logs in the directory.
DriftShape(r) ==
  r = [at |-> r.at, sample |-> r.sample, todo |-> r.todo, long |-> r.long,
       previous |-> r.previous, docs |-> r.docs]

DriftTypeOK ==
  /\ pods \subseteq DriftPods
  /\ drift = [p \in DriftPods |-> drift[p]]
  /\ \A p \in DriftPods : DriftShape(drift[p]) /\ drift[p].sample \in 1..DriftSamples
  /\ \A f \in shared : f.log \in Seq(Snapshots)

\* The counters files of the pod: what is left of them while it clears the directory is
\* still on its list, none is there when fs-drift starts, and later they are of its sample.
OwnFiles(p) ==
  /\ at(p) = "clear" => \A f \in Own(p) : \E g \in drift[p].todo : SameName(f, g)
  /\ at(p) = "run" => Own(p) = {}
  /\ at(p) \in {"stats", "rsptimes", "counters", "rates"} =>
       \A f \in Own(p) : f.sample = drift[p].sample
  /\ at(p) = "rates" => \A f \in drift[p].todo : f.kind = "counters"

OwnDocs(p) ==
  \A doc \in Docs(p) : (doc.of.pod = p => doc.of.sample = doc.sample) /\ AddUp(doc)

\* The same of all counters files when no other pod uses the directory; and those of the
\* sample that are not read yet are still there, or on the list.
AloneFiles(p) ==
  /\ at(p) = "clear" => \A f \in Counters : \E g \in drift[p].todo : SameName(f, g)
  /\ at(p) = "run" => Counters = {}
  /\ at(p) \in {"stats", "rsptimes", "counters", "rates"} => \A f \in Counters : f.pod = p
  /\ at(p) \in {"stats", "rsptimes", "counters"} =>
       \A t \in DriftThreads : \E f \in Counters : f.thread = t
  /\ at(p) = "rates" =>
       \A t \in DriftThreads :
         (\E f \in drift[p].todo : f.thread = t) \/ Read(p, drift[p].sample, t)

AloneDocs(p) ==
  /\ \A doc \in Docs(p) : doc.of.pod = p
  /\ \A s \in 1..DriftSamples, t \in DriftThreads :
       s < drift[p].sample \/ at(p) = "ok" => Read(p, s, t)

DriftIInv ==
  /\ DriftTypeOK
  /\ \A p \in pods :
       /\ OwnFiles(p) /\ OwnDocs(p)
       /\ pods = {p} => AloneFiles(p) /\ AloneDocs(p)

\* It is what the property says of every pod.
LEMMA DriftIInvEnough == DriftIInv => RatesOfThisSample
BY DEF DriftIInv, OwnDocs, AloneDocs, Docs, Read, RatesOfThisSample

LEMMA DriftIInvInit == Init => DriftIInv
<1>. SUFFICES ASSUME Init PROVE DriftIInv
  OBVIOUS
<1>1. pods \subseteq DriftPods /\ shared \subseteq Leftovers
  BY DEF Init, DriftInit
<1>2. drift = [p \in DriftPods |->
       [at |-> "start", sample |-> 1, todo |-> {}, long |-> FALSE, previous |-> NoSnapshot, docs |-> {}]]
  BY DEF Init, DriftInit
<1>3. 1 \in 1..DriftSamples /\ \A s \in 1..DriftSamples : ~(s < 1)
  BY DriftAssumption
<1>4. DriftTypeOK
  BY <1>1, <1>2, <1>3, DriftAssumption DEF DriftTypeOK, DriftShape, Snapshots
<1>5. ASSUME NEW p \in pods
      PROVE  at(p) = "start" /\ Docs(p) = {} /\ drift[p].sample = 1
  BY <1>1, <1>2 DEF at, Docs
<1>. QED BY <1>3, <1>4, <1>5 DEF DriftIInv, OwnFiles, OwnDocs, AloneFiles, AloneDocs

\* What a pod does with the file that it opens: the rates of its log, as far as they go.
RatesKept(log, first) == SubSeq(Rates(log, first), 1, Cardinality(Asserted(Rates(log, first))))

ReadsFile(p, f, g) ==
  \E previous, a :
    /\ a \in {"rates", "raised"}
    /\ Go(p, [drift[p] EXCEPT
         !.todo = @ \ {f},
         !.previous = previous,
         !.docs = @ \cup {[sample |-> drift[p].sample, of |-> g, rates |-> RatesKept(g.log, NoSnapshot)]},
         !.at = a])

LEMMA ReadingOne ==
  ASSUME NEW p, ReadCounters(p)
  PROVE  /\ at(p) = "rates"
         /\ UNCHANGED <<pods, there, shared>>
         /\ \E f \in drift[p].todo :
              To(p, "raised") \/ \E g \in shared : SameName(f, g) /\ ReadsFile(p, f, g)
<1>1. at(p) = "rates" /\ UNCHANGED <<pods, there, shared>>
  BY Zenon DEF ReadCounters
<1>2. PICK f \in drift[p].todo :
        LET opened == {g \in shared : SameName(f, g)} IN
        \/ opened = {} /\ To(p, "raised")
        \/ \E g \in opened :
             LET rates == Rates(g.log, Previous(p))
                 kept  == SubSeq(rates, 1, Cardinality(Asserted(rates)))
             IN Go(p, [drift[p] EXCEPT
                  !.todo = @ \ {f},
                  !.previous = IF g.log = <<>> THEN @ ELSE g.log[Len(g.log)],
                  !.docs = @ \cup {[sample |-> drift[p].sample, of |-> g, rates |-> kept]},
                  !.at = IF kept = rates THEN @ ELSE "raised"])
  BY Zenon DEF ReadCounters
<1>3. CASE To(p, "raised")
  BY <1>1, <1>3
<1>4. ASSUME NEW g \in shared, SameName(f, g),
             Go(p, [drift[p] EXCEPT
                !.todo = @ \ {f},
                !.previous = IF g.log = <<>> THEN @ ELSE g.log[Len(g.log)],
                !.docs = @ \cup {[sample |-> drift[p].sample, of |-> g, rates |-> RatesKept(g.log, NoSnapshot)]},
                !.at = IF RatesKept(g.log, NoSnapshot) = Rates(g.log, NoSnapshot) THEN @ ELSE "raised"])
      PROVE  ReadsFile(p, f, g)
  <2>. DEFINE previous == IF g.log = <<>> THEN drift[p].previous ELSE g.log[Len(g.log)]
              a == IF RatesKept(g.log, NoSnapshot) = Rates(g.log, NoSnapshot) THEN drift[p].at ELSE "raised"
  <2>1. Go(p, [drift[p] EXCEPT
         !.todo = @ \ {f},
         !.previous = previous,
         !.docs = @ \cup {[sample |-> drift[p].sample, of |-> g, rates |-> RatesKept(g.log, NoSnapshot)]},
         !.at = a])
    BY <1>4, Zenon
  <2>2. a \in {"rates", "raised"}
    BY <1>1 DEF at
  <2>. HIDE DEF previous, a
  <2>. QED BY <2>1, <2>2, Zenon DEF ReadsFile
<1>5. CASE To(p, "raised") \/ \E g \in shared : SameName(f, g) /\ ReadsFile(p, f, g)
  BY <1>1, <1>5
<1>. QED BY <1>2, <1>4, <1>5, <1>1, Zenon DEF RatesKept, Previous

\* Every step is one of a pod, which changes its state alone.
LEMMA StepOfPod ==
  ASSUME DriftTypeOK, NEW p \in DriftPods, DriftSteps(p)
  PROVE  /\ pods' = pods
         /\ \A q \in DriftPods : q # p => drift'[q] = drift[q]
         /\ drift' = [q \in DriftPods |-> drift'[q]]
<1>0. pods' = pods /\ \E r : Go(p, r)
  <2>1. CASE TestDir(p)
    BY <2>1 DEF TestDir, To
  <2>2. CASE MakeDir(p)
    BY <2>2 DEF MakeDir, To
  <2>3. CASE ListOld(p)
    BY <2>3 DEF ListOld
  <2>4. CASE Unlink(p)
    BY <2>4 DEF Unlink, To
  <2>5. CASE Cleared(p)
    BY <2>5 DEF Cleared, To
  <2>6. CASE RunDrift(p)
    BY <2>6 DEF RunDrift, To
  <2>7. CASE RspTimes(p)
    BY <2>7 DEF RspTimes, To
  <2>8. CASE ReadStats(p)
    BY <2>8 DEF ReadStats, To
  <2>9. CASE ListCounters(p)
    BY <2>9 DEF ListCounters
  <2>10. CASE ReadCounters(p)
    <3>1. pods' = pods /\ \E f \in drift[p].todo :
             To(p, "raised") \/ \E g \in shared : SameName(f, g) /\ ReadsFile(p, f, g)
      BY <2>10, ReadingOne
    <3>. QED BY <3>1, Zenon DEF ReadsFile, To
  <2>11. CASE NextDriftSample(p)
    BY <2>11 DEF NextDriftSample, To
  <2>. QED BY <2>1, <2>2, <2>3, <2>4, <2>5, <2>6, <2>7, <2>8, <2>9, <2>10, <2>11 DEF DriftSteps
<1>. QED BY <1>0 DEF Go, DriftTypeOK

\* What a pod writes: its own files, or the statistics.
LEMMA FilesOfPod ==
  ASSUME NEW p, DriftSteps(p), DriftTypeOK
  PROVE  /\ \A f \in shared' \ shared :
              /\ f.log \in Seq(Snapshots)
              /\ f.kind = "counters" => f.pod = p /\ f.sample = drift[p].sample /\ at(p) = "run"
         /\ at(p) \notin {"clear", "run"} => Counters' = Counters
<1>1. CASE RunDrift(p)
  <2>1. \A log \in CounterLogs : log \in Seq(Snapshots)
    BY DriftAssumption DEF Snapshots
  <2>2. <<>> \in Seq(Snapshots)
    OBVIOUS
  <2>3. at(p) = "run"
    BY <1>1 DEF RunDrift
  <2>4. CASE UNCHANGED shared
    BY <2>3, <2>4
  <2>5. ASSUME NEW left \in [DriftThreads -> CounterLogs],
               shared' = Put({File(p, "counters", t, drift[p].sample, left[t]) : t \in DriftThreads}
                             \cup {File(p, "rsptimes", t, drift[p].sample, <<>>) : t \in DriftThreads})
        PROVE  \A f \in shared' \ shared :
                 /\ f.log \in Seq(Snapshots)
                 /\ f.kind = "counters" => f.pod = p /\ f.sample = drift[p].sample
    <3>. DEFINE new == {File(p, "counters", t, drift[p].sample, left[t]) : t \in DriftThreads}
                       \cup {File(p, "rsptimes", t, drift[p].sample, <<>>) : t \in DriftThreads}
    <3>1. \A f \in shared' \ shared : f \in new
      <4>. HIDE DEF new
      <4>. QED BY <2>5 DEF Put, new
    <3>2. ASSUME NEW t \in DriftThreads
          PROVE  left[t] \in Seq(Snapshots)
      BY <2>1
    <3>3. ASSUME NEW f \in new
          PROVE  /\ f.log \in Seq(Snapshots)
                 /\ f.kind = "counters" => f.pod = p /\ f.sample = drift[p].sample
      <4>1. PICK t \in DriftThreads :
              \/ f = File(p, "counters", t, drift[p].sample, left[t])
              \/ f = File(p, "rsptimes", t, drift[p].sample, <<>>)
        OBVIOUS
      <4>2. CASE f = File(p, "counters", t, drift[p].sample, left[t])
        <5>1. f.log = left[t] /\ f.pod = p /\ f.sample = drift[p].sample
          BY <4>2 DEF File
        <5>. QED BY <3>2, <5>1
      <4>3. CASE f = File(p, "rsptimes", t, drift[p].sample, <<>>)
        <5>1. f.log = <<>> /\ f.kind = "rsptimes"
          BY <4>3 DEF File
        <5>. QED BY <2>2, <5>1
      <4>. QED BY <4>1, <4>2, <4>3
    <3>. HIDE DEF new
    <3>. QED BY <3>1, <3>3
  <2>. QED BY <1>1, <2>3, <2>4, <2>5 DEF RunDrift
<1>2. CASE RspTimes(p)
  <2>1. CASE UNCHANGED shared
    BY <2>1 DEF Counters
  <2>2. CASE shared' = Put({File(p, "stats", 0, drift[p].sample, <<>>)})
    <3>. DEFINE new == File(p, "stats", 0, drift[p].sample, <<>>)
    <3>1. new.kind = "stats" /\ new.log = <<>> /\ <<>> \in Seq(Snapshots)
      BY DEF File
    <3>2. \A f \in shared' \ shared : f = new
      BY <2>2 DEF Put
    <3>3. \A f \in shared : f.kind = "counters" => f \in shared'
      BY <2>2, <3>1 DEF Put, SameName
    <3>4. Counters' = Counters
      <4>. HIDE DEF new
      <4>1. \A f : f \in shared' /\ f.kind = "counters" => f \in shared
        BY <3>1, <3>2
      <4>2. \A f : f \in shared' => f \in shared \/ f.kind = "stats"
        BY <3>1, <3>2
      <4>3. \A f : f \in Counters' <=> f \in Counters
        BY <3>3, <4>1 DEF Counters
      <4>. QED BY <4>3
    <3>. HIDE DEF new
    <3>. QED BY <3>1, <3>2, <3>4
  <2>. QED BY <1>2, <2>1, <2>2 DEF RspTimes
<1>3. CASE Unlink(p)
  BY <1>3 DEF Unlink
<1>4. CASE TestDir(p) \/ MakeDir(p) \/ ListOld(p) \/ Cleared(p) \/ ReadStats(p)
             \/ ListCounters(p) \/ ReadCounters(p) \/ NextDriftSample(p)
  <2>1. UNCHANGED shared
    BY <1>4, ReadingOne DEF TestDir, MakeDir, ListOld, Cleared, ReadStats, ListCounters, NextDriftSample
  <2>. QED BY <2>1 DEF Counters
<1>. QED BY <1>1, <1>2, <1>3, <1>4 DEF DriftSteps

\* The other pods find what they had, but for files that are gone.
LEMMA OthersKept ==
  ASSUME DriftIInv, NEW p \in pods, NEW q \in pods, q # p, DriftSteps(p)
  PROVE  OwnFiles(q)' /\ OwnDocs(q)'
<1>1. p \in DriftPods /\ q \in DriftPods /\ DriftTypeOK /\ OwnFiles(q) /\ OwnDocs(q)
  BY DEF DriftIInv, DriftTypeOK
<1>2. drift'[q] = drift[q]
  BY <1>1, StepOfPod
<1>3. at(q)' = at(q) /\ Docs(q)' = Docs(q)
  BY <1>2 DEF at, Docs
<1>4. Own(q)' \subseteq Own(q)
  BY <1>1, FilesOfPod DEF Own, Counters
<1>5. OwnFiles(q)'
  BY <1>1, <1>2, <1>3, <1>4 DEF OwnFiles
<1>6. OwnDocs(q)'
  BY <1>1, <1>3 DEF OwnDocs
<1>. QED BY <1>5, <1>6

\* The state of a pod before and after a step of its own.
LEMMA Changes ==
  ASSUME DriftTypeOK, NEW p \in DriftPods
  PROVE  /\ drift[p] = [at |-> drift[p].at, sample |-> drift[p].sample, todo |-> drift[p].todo,
                        long |-> drift[p].long, previous |-> drift[p].previous, docs |-> drift[p].docs]
         /\ \A r : Go(p, r) => drift'[p] = r
<1>1. DriftShape(drift[p]) /\ drift = [q \in DriftPods |-> drift[q]]
  BY DEF DriftTypeOK
<1>. QED BY <1>1 DEF Go, DriftShape

\* What a pod's state is after a step that only takes it elsewhere.
LEMMA Goes ==
  ASSUME DriftTypeOK, NEW p \in DriftPods, NEW a, To(p, a)
  PROVE  /\ at(p)' = a /\ Docs(p)' = Docs(p) /\ DriftShape(drift'[p])
         /\ drift'[p].sample = drift[p].sample /\ drift'[p].todo = drift[p].todo
<1>1. drift'[p] = [drift[p] EXCEPT !.at = a]
  BY Changes DEF To
<1>2. drift[p] = [at |-> drift[p].at, sample |-> drift[p].sample, todo |-> drift[p].todo,
                  long |-> drift[p].long, previous |-> drift[p].previous, docs |-> drift[p].docs]
  BY Changes
<1>3. drift'[p] = [at |-> a, sample |-> drift[p].sample, todo |-> drift[p].todo,
                   long |-> drift[p].long, previous |-> drift[p].previous, docs |-> drift[p].docs]
  BY <1>1, <1>2
<1>. QED BY <1>3 DEF at, Docs, DriftShape

\* All that is said of one pod.
PodGood(p) ==
  /\ DriftShape(drift[p]) /\ drift[p].sample \in 1..DriftSamples
  /\ OwnFiles(p) /\ OwnDocs(p)
  /\ pods = {p} => AloneFiles(p) /\ AloneDocs(p)

\* A pod that goes elsewhere keeps what it has read.
LEMMA DocsKept ==
  ASSUME NEW p, PodGood(p), pods' = pods, Docs(p)' = Docs(p), drift'[p].sample = drift[p].sample,
         at(p)' # "ok"
  PROVE  OwnDocs(p)' /\ (pods' = {p} => AloneDocs(p)')
<1>1. OwnDocs(p)'
  BY DEF PodGood, OwnDocs
<1>2. ASSUME pods = {p} PROVE AloneDocs(p)'
  <2>1. \A s, t : Read(p, s, t)' <=> Read(p, s, t)
    BY DEF Read
  <2>. QED BY <1>2, <2>1 DEF PodGood, AloneDocs
<1>. QED BY <1>1, <1>2

\* The file that is read is the pod's own, of its sample, or that of another pod, and
\* its rates add up; alone with the directory, the pod has then read this thread.
LEMMA OneRead ==
  ASSUME DriftTypeOK, NEW p \in DriftPods, PodGood(p), ReadCounters(p)
  PROVE  PodGood(p)'
<1>1. at(p) = "rates" /\ pods' = pods /\ shared' = shared /\ Counters' = Counters
  BY ReadingOne DEF Counters
<1>2. PICK f \in drift[p].todo :
        To(p, "raised") \/ \E g \in shared : SameName(f, g) /\ ReadsFile(p, f, g)
  BY ReadingOne, Zenon
<1>3. CASE To(p, "raised")
  <2>1. at(p)' = "raised" /\ Docs(p)' = Docs(p) /\ DriftShape(drift'[p]) /\ drift'[p].sample = drift[p].sample
    BY <1>3, Goes
  <2>2. OwnDocs(p)' /\ (pods' = {p} => AloneDocs(p)')
    BY <1>1, <2>1, DocsKept
  <2>. QED BY <2>1, <2>2 DEF PodGood, OwnFiles, AloneFiles
<1>4. CASE \E g \in shared : SameName(f, g) /\ ReadsFile(p, f, g)
  <2>1. PICK g \in shared : SameName(f, g) /\ ReadsFile(p, f, g)
    BY <1>4
  <2>. DEFINE doc == [sample |-> drift[p].sample, of |-> g, rates |-> RatesKept(g.log, NoSnapshot)]
  <2>2. PICK previous, a :
          /\ a \in {"rates", "raised"}
          /\ drift'[p] = [drift[p] EXCEPT !.todo = @ \ {f}, !.previous = previous,
                                          !.docs = @ \cup {doc}, !.at = a]
    BY <2>1, Changes, Zenon DEF ReadsFile
  <2>3. drift'[p] = [at |-> a, sample |-> drift[p].sample, todo |-> drift[p].todo \ {f},
                     long |-> drift[p].long, previous |-> previous, docs |-> drift[p].docs \cup {doc}]
    <3>. HIDE DEF doc
    <3>. QED BY <2>2, Changes
  <2>4. /\ at(p)' = a /\ Docs(p)' = Docs(p) \cup {doc} /\ DriftShape(drift'[p])
        /\ drift'[p].sample = drift[p].sample /\ drift'[p].todo = drift[p].todo \ {f}
    <3>. HIDE DEF doc
    <3>. QED BY <2>3 DEF at, Docs, DriftShape
  <2>5. doc.sample = drift[p].sample /\ doc.of = g /\ doc.rates = RatesKept(g.log, NoSnapshot)
    OBVIOUS
  <2>6. AddUp(doc)
    <3>. HIDE DEF doc
    <3>1. g.log \in Seq(Snapshots)
      BY DEF DriftTypeOK
    <3>. QED BY <2>5, <3>1, KeptAddUp DEF RatesKept
  <2>7. g \in Counters /\ g.thread = f.thread
    BY <1>1, <2>1 DEF PodGood, OwnFiles, Counters, SameName
  <2>8. OwnDocs(p)'
    <3>1. g.pod = p => g.sample = drift[p].sample
      BY <1>1, <2>7 DEF PodGood, OwnFiles, Own
    <3>. HIDE DEF doc
    <3>. QED BY <2>4, <2>5, <2>6, <3>1 DEF PodGood, OwnDocs
  <2>9. OwnFiles(p)'
    BY <1>1, <2>2, <2>4 DEF PodGood, OwnFiles, Own
  <2>10. ASSUME pods = {p} PROVE AloneFiles(p)' /\ AloneDocs(p)'
    <3>. HIDE DEF doc
    <3>1. g.pod = p
      BY <1>1, <2>7, <2>10 DEF PodGood, AloneFiles
    <3>2. \A s, t : Read(p, s, t) => Read(p, s, t)'
      BY <2>4 DEF Read
    <3>0. PICK s : s = drift[p].sample
      OBVIOUS
    <3>3. Read(p, s, f.thread)'
      BY <2>4, <2>5, <2>7, <3>0 DEF Read
    <3>4. AloneDocs(p)'
      BY <1>1, <2>2, <2>4, <2>5, <2>10, <3>1, <3>2 DEF PodGood, AloneDocs
    <3>5. AloneFiles(p)'
      <4>1. ASSUME NEW t \in DriftThreads
            PROVE  (\E h \in drift'[p].todo : h.thread = t) \/ Read(p, s, t)'
        <5>1. CASE Read(p, s, t)
          BY <3>2, <5>1
        <5>2. ASSUME NEW h \in drift[p].todo, h.thread = t
              PROVE  (\E e \in drift'[p].todo : e.thread = t) \/ Read(p, s, t)'
          BY <2>4, <3>3, <5>2
        <5>. QED BY <1>1, <2>10, <3>0, <5>1, <5>2 DEF PodGood, AloneFiles
      <4>. QED BY <1>1, <2>2, <2>4, <2>10, <3>0, <4>1 DEF PodGood, AloneFiles
    <3>. QED BY <3>4, <3>5
  <2>. QED BY <1>1, <2>4, <2>8, <2>9, <2>10 DEF PodGood
<1>. QED BY <1>2, <1>3, <1>4

\* A step of the pod itself.
LEMMA PodKept ==
  ASSUME DriftTypeOK, NEW p \in DriftPods, PodGood(p), DriftSteps(p)
  PROVE  PodGood(p)'
<1>0. pods' = pods
  BY StepOfPod
<1>1. CASE TestDir(p)
  <2>1. PICK a \in {"list", "mkdir"} : To(p, a)
    BY <1>1 DEF TestDir
  <2>2. at(p)' = a /\ Docs(p)' = Docs(p) /\ DriftShape(drift'[p]) /\ drift'[p].sample = drift[p].sample
    BY <2>1, Goes
  <2>3. OwnDocs(p)' /\ (pods' = {p} => AloneDocs(p)')
    BY <1>0, <2>1, <2>2, DocsKept
  <2>. QED BY <2>1, <2>2, <2>3 DEF PodGood, OwnFiles, AloneFiles
<1>2. CASE MakeDir(p)
  <2>1. PICK a \in {"list", "raised"} : To(p, a)
    BY <1>2 DEF MakeDir
  <2>2. at(p)' = a /\ Docs(p)' = Docs(p) /\ DriftShape(drift'[p]) /\ drift'[p].sample = drift[p].sample
    BY <2>1, Goes
  <2>3. OwnDocs(p)' /\ (pods' = {p} => AloneDocs(p)')
    BY <1>0, <2>1, <2>2, DocsKept
  <2>. QED BY <2>1, <2>2, <2>3 DEF PodGood, OwnFiles, AloneFiles
<1>3. CASE ListOld(p)
  <2>1. /\ at(p)' = "clear" /\ Docs(p)' = Docs(p) /\ DriftShape(drift'[p])
        /\ drift'[p].sample = drift[p].sample /\ drift'[p].todo = shared
    <3>1. Go(p, [drift[p] EXCEPT !.at = "clear", !.todo = shared])
      BY <1>3 DEF ListOld, Unconsumed
    <3>2. drift'[p] = [drift[p] EXCEPT !.at = "clear", !.todo = shared]
      BY <3>1 DEF Go, DriftTypeOK
    <3>. QED BY <3>2 DEF at, Docs, DriftShape, DriftTypeOK
  <2>2. shared' = shared
    BY <1>3 DEF ListOld
  <2>3. OwnDocs(p)' /\ (pods' = {p} => AloneDocs(p)')
    BY <1>0, <2>1, DocsKept
  <2>4. \A f \in shared : SameName(f, f)
    BY DEF SameName
  <2>. QED BY <2>1, <2>2, <2>3, <2>4 DEF PodGood, OwnFiles, AloneFiles, Own, Counters
<1>4. CASE Unlink(p)
  <2>1. at(p) = "clear"
    BY <1>4 DEF Unlink
  <2>2. PICK f \in drift[p].todo, a \in {"clear", "raised"} :
          /\ shared' = shared \ {g \in shared : SameName(f, g)}
          /\ Go(p, [drift[p] EXCEPT !.todo = @ \ {f}, !.at = a])
    <3>1. PICK f \in drift[p].todo :
            /\ shared' = shared \ {g \in shared : SameName(f, g)}
            /\ Go(p, [drift[p] EXCEPT !.todo = @ \ {f}, !.at = IF {g \in shared : SameName(f, g)} = {} THEN "raised" ELSE @])
      BY <1>4, Zenon DEF Unlink
    <3>. DEFINE a == IF {g \in shared : SameName(f, g)} = {} THEN "raised" ELSE drift[p].at
    <3>2. a \in {"clear", "raised"}
      BY <2>1 DEF at
    <3>3. Go(p, [drift[p] EXCEPT !.todo = @ \ {f}, !.at = a])
      BY <3>1, Zenon
    <3>. HIDE DEF a
    <3>. QED BY <3>1, <3>2, <3>3, Zenon
  <2>3. /\ at(p)' = a /\ Docs(p)' = Docs(p) /\ DriftShape(drift'[p])
        /\ drift'[p].sample = drift[p].sample /\ drift'[p].todo = drift[p].todo \ {f}
    <3>1. drift'[p] = [drift[p] EXCEPT !.todo = @ \ {f}, !.at = a]
      BY <2>2, Changes, Zenon
    <3>2. drift'[p] = [at |-> a, sample |-> drift[p].sample, todo |-> drift[p].todo \ {f},
                       long |-> drift[p].long, previous |-> drift[p].previous, docs |-> drift[p].docs]
      BY <3>1, Changes
    <3>. QED BY <3>2 DEF at, Docs, DriftShape
  <2>4. ASSUME NEW g \in shared', NEW h \in drift[p].todo, SameName(g, h)
        PROVE  h \in drift'[p].todo
    <3>1. h # f
      BY <2>2, <2>4 DEF SameName
    <3>. QED BY <2>3, <3>1
  <2>5. shared' \subseteq shared
    BY <2>2
  <2>6. OwnDocs(p)' /\ (pods' = {p} => AloneDocs(p)')
    BY <1>0, <2>2, <2>3, DocsKept
  <2>. QED BY <1>0, <2>1, <2>2, <2>3, <2>4, <2>5, <2>6 DEF PodGood, OwnFiles, AloneFiles, Own, Counters
<1>5. CASE Cleared(p)
  <2>1. at(p) = "clear" /\ drift[p].todo = {} /\ To(p, "run") /\ shared' = shared
    BY <1>5 DEF Cleared
  <2>2. at(p)' = "run" /\ Docs(p)' = Docs(p) /\ DriftShape(drift'[p]) /\ drift'[p].sample = drift[p].sample
    BY <2>1, Goes
  <2>3. OwnDocs(p)' /\ (pods' = {p} => AloneDocs(p)')
    BY <1>0, <2>2, DocsKept
  <2>. QED BY <1>0, <2>1, <2>2, <2>3 DEF PodGood, OwnFiles, AloneFiles, Own, Counters
<1>6. CASE RunDrift(p)
  <2>1. at(p) = "run"
    BY <1>6 DEF RunDrift
  <2>2. CASE To(p, "raised")
    <3>1. at(p)' = "raised" /\ Docs(p)' = Docs(p) /\ DriftShape(drift'[p]) /\ drift'[p].sample = drift[p].sample
      BY <2>2, Goes
    <3>2. OwnDocs(p)' /\ (pods' = {p} => AloneDocs(p)')
      BY <1>0, <3>1, DocsKept
    <3>. QED BY <3>1, <3>2 DEF PodGood, OwnFiles, AloneFiles
  <2>3. ASSUME NEW left \in [DriftThreads -> CounterLogs], NEW a \in {"stats", "counters"}, To(p, a),
               shared' = Put({File(p, "counters", t, drift[p].sample, left[t]) : t \in DriftThreads}
                             \cup {File(p, "rsptimes", t, drift[p].sample, <<>>) : t \in DriftThreads})
        PROVE  PodGood(p)'
    <3>1. at(p)' = a /\ Docs(p)' = Docs(p) /\ DriftShape(drift'[p]) /\ drift'[p].sample = drift[p].sample
      BY <2>3, Goes
    <3>2. OwnDocs(p)' /\ (pods' = {p} => AloneDocs(p)')
      BY <1>0, <2>3, <3>1, DocsKept
    <3>3. \A f \in Counters' \ Counters : f.pod = p /\ f.sample = drift[p].sample
      BY FilesOfPod DEF Counters
    <3>4. ASSUME NEW t \in DriftThreads PROVE \E f \in Counters' : f.thread = t
      <4>. DEFINE f == File(p, "counters", t, drift[p].sample, left[t])
      <4>1. f \in shared'
        BY <2>3 DEF Put
      <4>2. f.kind = "counters" /\ f.thread = t
        BY DEF File
      <4>. HIDE DEF f
      <4>. QED BY <4>1, <4>2 DEF Counters
    <3>5. OwnFiles(p)'
      BY <2>1, <2>3, <3>1, <3>3 DEF PodGood, OwnFiles, Own
    <3>6. ASSUME pods = {p} PROVE AloneFiles(p)'
      BY <2>1, <2>3, <3>1, <3>3, <3>4, <3>6 DEF PodGood, AloneFiles
    <3>. QED BY <1>0, <3>1, <3>2, <3>5, <3>6 DEF PodGood
  <2>4. ASSUME NEW left \in [DriftThreads -> CounterLogs], NEW long \in BOOLEAN,
               shared' = Put({File(p, "counters", t, drift[p].sample, left[t]) : t \in DriftThreads}
                             \cup {File(p, "rsptimes", t, drift[p].sample, <<>>) : t \in DriftThreads}),
               Go(p, [drift[p] EXCEPT !.at = IF long THEN "stats" ELSE "counters"])
        PROVE  PodGood(p)'
    <3>1. CASE long
      BY <2>3, <2>4, <3>1 DEF To
    <3>2. CASE ~long
      BY <2>3, <2>4, <3>2 DEF To
    <3>. QED BY <3>1, <3>2
  <2>. QED BY <1>6, <2>2, <2>4, Zenon DEF RunDrift
<1>7. CASE RspTimes(p)
  <2>1. at(p) = "stats" /\ Counters' = Counters
    BY <1>7, FilesOfPod DEF RspTimes
  <2>2. PICK a \in {"raised", "rsptimes"} : To(p, a)
    BY <1>7 DEF RspTimes
  <2>3. at(p)' = a /\ Docs(p)' = Docs(p) /\ DriftShape(drift'[p]) /\ drift'[p].sample = drift[p].sample
    BY <2>2, Goes
  <2>4. OwnDocs(p)' /\ (pods' = {p} => AloneDocs(p)')
    BY <1>0, <2>2, <2>3, DocsKept
  <2>. QED BY <1>0, <2>1, <2>2, <2>3, <2>4 DEF PodGood, OwnFiles, AloneFiles, Own
<1>8. CASE ReadStats(p)
  <2>1. at(p) = "rsptimes" /\ Counters' = Counters
    BY <1>8, FilesOfPod DEF ReadStats
  <2>2. PICK a \in {"raised", "counters"} : To(p, a)
    BY <1>8 DEF ReadStats
  <2>3. at(p)' = a /\ Docs(p)' = Docs(p) /\ DriftShape(drift'[p]) /\ drift'[p].sample = drift[p].sample
    BY <2>2, Goes
  <2>4. OwnDocs(p)' /\ (pods' = {p} => AloneDocs(p)')
    BY <1>0, <2>2, <2>3, DocsKept
  <2>. QED BY <1>0, <2>1, <2>2, <2>3, <2>4 DEF PodGood, OwnFiles, AloneFiles, Own
<1>9. CASE ListCounters(p)
  <2>1. at(p) = "counters" /\ Counters' = Counters /\ Go(p, [drift[p] EXCEPT !.at = "rates", !.todo = Counters])
    BY <1>9, FilesOfPod DEF ListCounters, Counters
  <2>2. /\ at(p)' = "rates" /\ Docs(p)' = Docs(p) /\ DriftShape(drift'[p])
        /\ drift'[p].sample = drift[p].sample /\ drift'[p].todo = Counters
    <3>1. drift'[p] = [drift[p] EXCEPT !.at = "rates", !.todo = Counters]
      BY <2>1, Changes
    <3>2. drift'[p] = [at |-> "rates", sample |-> drift[p].sample, todo |-> Counters,
                       long |-> drift[p].long, previous |-> drift[p].previous, docs |-> drift[p].docs]
      BY <3>1, Changes
    <3>. QED BY <3>2 DEF at, Docs, DriftShape
  <2>3. OwnDocs(p)' /\ (pods' = {p} => AloneDocs(p)')
    BY <1>0, <2>2, DocsKept
  <2>4. \A f \in Counters : f.kind = "counters"
    BY DEF Counters
  <2>. QED BY <1>0, <2>1, <2>2, <2>3, <2>4 DEF PodGood, OwnFiles, AloneFiles, Own
<1>10. CASE ReadCounters(p)
  BY <1>10, OneRead
<1>11. CASE NextDriftSample(p)
  <2>1. at(p) = "rates" /\ drift[p].todo = {} /\ shared' = shared
    BY <1>11 DEF NextDriftSample
  <2>2. \A s, t : Docs(p)' = Docs(p) => (Read(p, s, t)' <=> Read(p, s, t))
    BY DEF Read
  <2>3. CASE drift[p].sample < DriftSamples
    <3>1. /\ at(p)' = "start" /\ Docs(p)' = Docs(p) /\ DriftShape(drift'[p])
          /\ drift'[p].sample = drift[p].sample + 1
      <4>1. drift'[p] = [drift[p] EXCEPT !.at = "start", !.sample = @ + 1]
        BY <1>11, <2>3, Changes DEF NextDriftSample
      <4>2. drift'[p] = [at |-> "start", sample |-> drift[p].sample + 1, todo |-> drift[p].todo,
                         long |-> drift[p].long, previous |-> drift[p].previous, docs |-> drift[p].docs]
        BY <4>1, Changes
      <4>. QED BY <4>2 DEF at, Docs, DriftShape
    <3>2. drift[p].sample + 1 \in 1..DriftSamples
      BY <2>3, DriftAssumption DEF DriftTypeOK
    <3>3. ASSUME pods = {p} PROVE AloneDocs(p)'
      <4>1. ASSUME NEW s \in 1..DriftSamples, NEW t \in DriftThreads, s < drift[p].sample + 1
            PROVE  Read(p, s, t)
        <5>1. s < drift[p].sample \/ s = drift[p].sample
          BY <4>1, DriftAssumption DEF DriftTypeOK
        <5>. QED BY <2>1, <3>3, <5>1 DEF PodGood, AloneFiles, AloneDocs
      <4>. QED BY <2>2, <3>1, <3>3, <4>1 DEF PodGood, AloneDocs
    <3>4. OwnDocs(p)'
      BY <3>1 DEF PodGood, OwnDocs
    <3>. QED BY <1>0, <3>1, <3>2, <3>3, <3>4 DEF PodGood, OwnFiles, AloneFiles
  <2>4. CASE ~(drift[p].sample < DriftSamples)
    <3>1. /\ at(p)' = "ok" /\ Docs(p)' = Docs(p) /\ DriftShape(drift'[p])
          /\ drift'[p].sample = drift[p].sample
      BY <1>11, <2>4, Goes DEF NextDriftSample
    <3>2. drift[p].sample = DriftSamples
      BY <2>4, DriftAssumption DEF DriftTypeOK
    <3>3. ASSUME pods = {p} PROVE AloneDocs(p)'
      <4>1. ASSUME NEW s \in 1..DriftSamples, NEW t \in DriftThreads
            PROVE  Read(p, s, t)
        <5>1. s < drift[p].sample \/ s = drift[p].sample
          BY <3>2, DriftAssumption
        <5>. QED BY <2>1, <3>3, <5>1 DEF PodGood, AloneFiles, AloneDocs
      <4>. QED BY <2>2, <3>1, <3>3, <4>1 DEF PodGood, AloneDocs
    <3>4. OwnDocs(p)'
      BY <3>1 DEF PodGood, OwnDocs
    <3>. QED BY <1>0, <3>1, <3>3, <3>4 DEF PodGood, OwnFiles, AloneFiles
  <2>. QED BY <2>3, <2>4
<1>. QED BY <1>1, <1>2, <1>3, <1>4, <1>5, <1>6, <1>7, <1>8, <1>9, <1>10, <1>11 DEF DriftSteps

\* Of every document the pods make, whatever the others do in the directory
\* (snafu/fs_drift_wrapper): it is not of a file of an earlier sample of its pod, and its
\* rates add up; and a pod alone with the directory reads its own files, all of them.
THEOREM RatesOfEverySample == Spec => []RatesOfThisSample
<1>1. DriftIInv /\ [Next]_vars => DriftIInv'
  <2>. SUFFICES ASSUME DriftIInv, [Next]_vars PROVE DriftIInv'
    OBVIOUS
  <2>1. CASE UNCHANGED driftVars
    <3>1. pods' = pods /\ shared' = shared /\ drift' = drift
      BY <2>1 DEF driftVars
    <3>2. DriftTypeOK'
      BY <3>1 DEF DriftIInv, DriftTypeOK
    <3>3. ASSUME NEW p \in pods
          PROVE  OwnFiles(p)' /\ OwnDocs(p)' /\ (pods = {p} => AloneFiles(p)' /\ AloneDocs(p)')
      <4>1. OwnFiles(p)' /\ OwnDocs(p)'
        BY <3>1 DEF DriftIInv, OwnFiles, OwnDocs, Own, Counters, Docs, at
      <4>2. \A s, t : Read(p, s, t)' <=> Read(p, s, t)
        BY <3>1 DEF Read, Docs
      <4>3. drift'[p] = drift[p] /\ at(p)' = at(p) /\ Docs(p)' = Docs(p) /\ Counters' = Counters
        BY <3>1 DEF Docs, at, Counters
      <4>4. ASSUME pods = {p} PROVE AloneDocs(p)'
        BY <4>2, <4>3, <4>4 DEF DriftIInv, AloneDocs
      <4>5. PICK s : s = drift[p].sample
        OBVIOUS
      <4>6. ASSUME pods = {p} PROVE AloneFiles(p)'
        BY <4>2, <4>3, <4>5, <4>6 DEF DriftIInv, AloneFiles
      <4>. QED BY <4>1, <4>4, <4>6
    <3>. QED BY <3>1, <3>2, <3>3 DEF DriftIInv
  <2>2. ASSUME NEW p \in pods, DriftSteps(p) PROVE DriftIInv'
    <3>1. p \in DriftPods /\ DriftTypeOK /\ pods \subseteq DriftPods /\ PodGood(p)
      BY DEF DriftIInv, DriftTypeOK, PodGood
    <3>2. /\ pods' = pods
          /\ \A q \in DriftPods : q # p => drift'[q] = drift[q]
          /\ drift' = [q \in DriftPods |-> drift'[q]]
      BY <2>2, <3>1, StepOfPod
    <3>3. PodGood(p)'
      BY <2>2, <3>1, PodKept
    <3>4. \A f \in shared' : f.log \in Seq(Snapshots)
      BY <2>2, <3>1, FilesOfPod DEF DriftTypeOK
    <3>5. ASSUME NEW q \in DriftPods
          PROVE  DriftShape(drift'[q]) /\ drift'[q].sample \in 1..DriftSamples
      <4>1. CASE q = p
        BY <3>3, <4>1 DEF PodGood
      <4>2. CASE q # p
        BY <3>1, <3>2, <4>2 DEF DriftTypeOK
      <4>. QED BY <4>1, <4>2
    <3>6. DriftTypeOK'
      BY <3>1, <3>2, <3>4, <3>5 DEF DriftTypeOK
    <3>7. ASSUME NEW q \in pods
          PROVE  OwnFiles(q)' /\ OwnDocs(q)' /\ (pods' = {q} => AloneFiles(q)' /\ AloneDocs(q)')
      <4>1. CASE q = p
        BY <3>3, <4>1 DEF PodGood
      <4>2. CASE q # p
        BY <2>2, <3>2, <4>2, OthersKept
      <4>. QED BY <4>1, <4>2
    <3>. QED BY <3>2, <3>6, <3>7 DEF DriftIInv
  <2>. QED BY <2>1, <2>2 DEF Next, vars, fioBoth, otherVars, Fio, Histogram, Drift, Blame, Matrix, DriftNext
<1>. QED BY <1>1, DriftIInvInit, DriftIInvEnough, PTL DEF Spec
-----------------------------------------------------------------------------
(* The logs of the fio wrapper                                             *)

\* The accumulators that reading the logs of a sequence may come to.
Accumulators(T) ==
  [end : {"none", "raised", "exit"}, log_file_name : SUBSET T,
   docs : SUBSET [of : T, from : T]]

\* acc[k] is what the first k files of seq give.
Reading(acc, seq, n) ==
  /\ acc[0] = Begun
  /\ \A k \in 1..n : acc[k] = ReadLog(acc[k - 1], seq[k])

\* A step of the reading is one of the accumulators again.
LEMMA ReadLogType ==
  ASSUME NEW T, NEW acc \in Accumulators(T), NEW p \in T
  PROVE  ReadLog(acc, p) \in Accumulators(T)
<1>. DEFINE names == LogFileName(acc.log_file_name, p)
<1>1. names \in SUBSET T
  BY DEF LogFileName, Accumulators
<1>2. {[of |-> p, from |-> f] : f \in names} \in SUBSET [of : T, from : T]
  BY <1>1
<1>. HIDE DEF names
<1>3. [acc EXCEPT !.end = "raised"] \in Accumulators(T)
  BY DEF Accumulators
<1>4. [acc EXCEPT !.end = "exit"] \in Accumulators(T)
  BY DEF Accumulators
<1>5. [acc EXCEPT !.log_file_name = names, !.docs = @ \cup {[of |-> p, from |-> f] : f \in names}]
        \in Accumulators(T)
  <2>. DEFINE more == {[of |-> p, from |-> f] : f \in names}
  <2>1. acc.docs \cup more \in SUBSET [of : T, from : T]
    BY <1>2 DEF Accumulators
  <2>2. [acc EXCEPT !.log_file_name = names, !.docs = @ \cup more]
          = [end |-> acc.end, log_file_name |-> names, docs |-> acc.docs \cup more]
    <3>. HIDE DEF more
    <3>1. acc = [end |-> acc.end, log_file_name |-> acc.log_file_name, docs |-> acc.docs]
      BY DEF Accumulators
    <3>2. PICK next : next = [acc EXCEPT !.log_file_name = names, !.docs = @ \cup more]
      OBVIOUS
    <3>3. next = [end |-> acc.end, log_file_name |-> names, docs |-> acc.docs \cup more]
      BY <3>1, <3>2
    <3>. QED BY <3>2, <3>3
  <2>3. acc.end \in {"none", "raised", "exit"}
    BY DEF Accumulators
  <2>. HIDE DEF more
  <2>4. [end |-> acc.end, log_file_name |-> names, docs |-> acc.docs \cup more] \in Accumulators(T)
    BY <1>1, <2>1, <2>3 DEF Accumulators
  <2>. QED BY <2>2, <2>4 DEF more
<1>. QED BY <1>3, <1>4, <1>5 DEF ReadLog, names

\* The fold goes through the files one by one.
LEMMA PayloadReads ==
  ASSUME NEW T, NEW seq \in Seq(T)
  PROVE  \E acc \in [0..Len(seq) -> Accumulators(T)] :
           Reading(acc, seq, Len(seq)) /\ FoldLeft(ReadLog, Begun, seq) = acc[Len(seq)]
<1>. DEFINE n == Len(seq)
            S == 1..n
            V == Accumulators(T)
            c == [s \in SUBSET S |-> Max(s)]
            step == [x \in S \X V |-> ReadLog(x[2], seq[x[1]])]
            Body(it) == [s \in SUBSET S |-> IF s = {} THEN Begun
                           ELSE ReadLog(it[s \ {Max(s)}], seq[Max(s)])]
            iter == CHOOSE it : it = Body(it)
<1>1. n \in Nat /\ DOMAIN seq = S /\ \A i \in S : seq[i] \in T
  OBVIOUS
<1>2. IsFiniteSet(S)
  BY <1>1, FS_Interval
<1>3. Takes(c, S)
  BY <1>1, Greatest DEF Takes
<1>4. step \in [S \X V -> V]
  BY <1>1, ReadLogType
<1>5. Begun \in V
  BY DEF Begun, Accumulators
<1>6. PICK it \in [SUBSET S -> V] : Iter(it, S, Begun, c, step)
  <2>. HIDE DEF c, step, S, V
  <2>. QED BY <1>2, <1>3, <1>4, <1>5, IterExists
<1>7. it = Body(it)
  <2>1. ASSUME NEW s \in SUBSET S
        PROVE  (IF s = {} THEN Begun ELSE step[<<c[s], it[s \ {c[s]}]>>])
                 = (IF s = {} THEN Begun ELSE ReadLog(it[s \ {Max(s)}], seq[Max(s)]))
    <3>1. CASE s = {}
      BY <3>1
    <3>2. CASE s # {}
      <4>1. c[s] = Max(s) /\ Max(s) \in S
        BY <3>2, <1>3 DEF Takes
      <4>2. it[s \ {Max(s)}] \in V
        OBVIOUS
      <4>3. <<Max(s), it[s \ {Max(s)}]>> \in S \X V
        BY <4>1, <4>2
      <4>4. step[<<Max(s), it[s \ {Max(s)}]>>] = ReadLog(it[s \ {Max(s)}], seq[Max(s)])
        <5>. DEFINE m == Max(s)
                    v == it[s \ {Max(s)}]
        <5>1. m \in S /\ v \in V
          BY <4>1, <4>2
        <5>. HIDE DEF m, v, V, S
        <5>2. step[<<m, v>>] = ReadLog(v, seq[m])
          BY <5>1
        <5>. QED BY <5>2 DEF m, v
      <4>. HIDE DEF c, step
      <4>. QED BY <3>2, <4>1, <4>4
    <3>. QED BY <3>1, <3>2
  <2>2. it = [s \in SUBSET S |-> IF s = {} THEN Begun ELSE step[<<c[s], it[s \ {c[s]}]>>]]
    <3>. HIDE DEF c, step
    <3>. QED BY <1>6 DEF Iter
  <2>. HIDE DEF c, step, S
  <2>. QED BY <2>1, <2>2
<1>8. iter = Body(iter)
  <2>. HIDE DEF Body
  <2>. QED BY <1>7
<1>9. FoldLeft(ReadLog, Begun, seq) = iter[S]
  BY <1>1 DEF FoldLeft, MapThenFoldSet
<1>10. iter[{}] = Begun
  <2>1. {} \in SUBSET S
    OBVIOUS
  <2>2. Body(iter)[{}] = Begun
    BY <2>1
  <2>. HIDE DEF Body, iter
  <2>. QED BY <1>8, <2>2
<1>11. Folds(iter, n, Begun, step, V)
  <2>. SUFFICES ASSUME NEW s \in SUBSET S, s # {}, iter[s \ {Max(s)}] \in V
                PROVE  iter[s] = step[<<Max(s), iter[s \ {Max(s)}]>>]
    BY <1>1, <1>4, <1>5, <1>10 DEF Folds
  <2>1. Body(iter)[s] = ReadLog(iter[s \ {Max(s)}], seq[Max(s)])
    <3>. HIDE DEF iter
    <3>. QED OBVIOUS
  <2>2. Max(s) \in S
    BY <1>3 DEF Takes
  <2>. DEFINE m == Max(s)
              v == iter[s \ {m}]
  <2>3. m \in S /\ v \in V
    BY <2>2
  <2>. HIDE DEF m, v, V, S, iter, Body
  <2>4. step[<<m, v>>] = ReadLog(v, seq[m])
    BY <2>3
  <2>5. iter[s] = ReadLog(v, seq[m])
    BY <1>8, <2>1 DEF m, v
  <2>. QED BY <2>4, <2>5 DEF m, v
<1>12. PICK acc : Come(acc, n, Begun, step, V) /\ acc[n] = iter[1..n]
  <2>. HIDE DEF iter, step, V, n, S
  <2>. QED BY ONLY <1>11, FoldSteps
<1>13. ASSUME NEW k \in 1..n PROVE acc[k] = ReadLog(acc[k - 1], seq[k])
  <2>1. k - 1 \in 0..n
    BY <1>1
  <2>2. acc[k - 1] \in V
    BY <1>12, <2>1 DEF Come
  <2>3. acc[k] = step[<<k, acc[k - 1]>>]
    BY <1>12 DEF Come
  <2>. HIDE DEF V
  <2>. QED BY <2>2, <2>3
<1>. HIDE DEF iter
<1>. QED BY <1>9, <1>12, <1>13 DEF Reading, Come

\* After k files without an end: what is known of those files, and of the last name.
Came(acc, seq, k) ==
  acc[k].end = "none" =>
    /\ \A i \in 1..k : seq[i].host \in fio_starttime
    /\ \A i \in 1..k : Named(seq[i].log) => seq[i] \in DOMAIN files
    /\ (\A i \in 1..k : ~Named(seq[i].log)) => k = 0 /\ acc[k].log_file_name = {}
    /\ (\A i \in 1..k : Named(seq[i].log)) => acc[k].docs = {[of |-> seq[i], from |-> seq[i]] : i \in 1..k}

LEMMA CameFrom ==
  ASSUME NEW T, NEW seq \in Seq(T), NEW acc \in [0..Len(seq) -> Accumulators(T)],
         Reading(acc, seq, Len(seq))
  PROVE  Came(acc, seq, Len(seq))
<1>. DEFINE n == Len(seq)
            Good == {k \in 0..n : Came(acc, seq, k)}
<1>1. n \in Nat
  OBVIOUS
<1>2. 0 \in Good
  <2>1. acc[0].docs = {} /\ acc[0].log_file_name = {} /\ 1..0 = {} /\ 0 \in 0..n
    BY <1>1 DEF Reading, Begun
  <2>2. {[of |-> seq[i], from |-> seq[i]] : i \in 1..0} = {}
    BY <2>1
  <2>. QED BY <2>1, <2>2 DEF Came
<1>3. ASSUME NEW k \in 0..(n - 1), k \in Good PROVE k + 1 \in Good
  <2>. DEFINE p == seq[k + 1]
              names == LogFileName(acc[k].log_file_name, p)
  <2>1. k + 1 \in 1..n /\ k + 1 \in 0..n /\ k \in 0..n /\ (k + 1) - 1 = k /\ 1..(k + 1) = (1..k) \cup {k + 1}
    BY <1>1
  <2>2. acc[k + 1] = ReadLog(acc[k], p) /\ acc[k] \in Accumulators(T)
    BY <2>1 DEF Reading
  <2>3. SUFFICES ASSUME acc[k + 1].end = "none" PROVE Came(acc, seq, k + 1)
    BY <2>1 DEF Came
  <2>4. acc[k].end = "none"
    BY <2>2, <2>3 DEF ReadLog
  <2>5. ~(names = {}) /\ names \subseteq DOMAIN files /\ p.host \in fio_starttime
    <3>. HIDE DEF p, names
    <3>. QED BY <2>2, <2>3, <2>4 DEF ReadLog, names, Accumulators
  <2>6. acc[k + 1] = [acc[k] EXCEPT !.log_file_name = names,
                                   !.docs = @ \cup {[of |-> p, from |-> f] : f \in names}]
    <3>. HIDE DEF p
    <3>. QED BY <2>2, <2>4, <2>5 DEF ReadLog
  <2>7. acc[k + 1].log_file_name = names /\ acc[k + 1].docs = acc[k].docs \cup {[of |-> p, from |-> f] : f \in names}
    <3>. DEFINE more == {[of |-> p, from |-> f] : f \in names}
    <3>1. acc[k] = [end |-> acc[k].end, log_file_name |-> acc[k].log_file_name, docs |-> acc[k].docs]
      BY <2>2 DEF Accumulators
    <3>. HIDE DEF names, more
    <3>2. acc[k + 1] = [end |-> acc[k].end, log_file_name |-> names, docs |-> acc[k].docs \cup more]
      BY <2>6, <3>1 DEF more
    <3>. QED BY <3>2 DEF more
  <2>8. Came(acc, seq, k)
    BY <1>3
  <2>9. Named(p.log) => names = {p}
    BY DEF LogFileName
  <2>10. ~Named(p.log) => names = acc[k].log_file_name
    BY DEF LogFileName
  <2>. HIDE DEF names, p
  <2>11. \A i \in 1..(k + 1) : seq[i].host \in fio_starttime
    BY <2>1, <2>4, <2>5, <2>8 DEF Came, p
  <2>12. \A i \in 1..(k + 1) : Named(seq[i].log) => seq[i] \in DOMAIN files
    BY <2>1, <2>4, <2>5, <2>8, <2>9 DEF Came, p
  <2>13. ~(\A i \in 1..(k + 1) : ~Named(seq[i].log))
    <3>. SUFFICES ASSUME \A i \in 1..(k + 1) : ~Named(seq[i].log) PROVE FALSE
      OBVIOUS
    <3>1. acc[k].log_file_name = {} /\ ~Named(p.log)
      BY <2>1, <2>4, <2>8 DEF Came, p
    <3>. QED BY <2>5, <2>10, <3>1
  <2>14. ASSUME \A i \in 1..(k + 1) : Named(seq[i].log)
         PROVE  acc[k + 1].docs = {[of |-> seq[i], from |-> seq[i]] : i \in 1..(k + 1)}
    <3>1. acc[k].docs = {[of |-> seq[i], from |-> seq[i]] : i \in 1..k}
      BY <2>1, <2>4, <2>8, <2>14 DEF Came
    <3>2. names = {p}
      BY <2>1, <2>9, <2>14 DEF p
    <3>3. {[of |-> p, from |-> f] : f \in names} = {[of |-> p, from |-> p]}
      BY <3>2
    <3>. QED BY <2>1, <2>7, <3>1, <3>3 DEF p
  <2>. QED BY <2>11, <2>12, <2>13, <2>14 DEF Came
<1>4. 0..n \subseteq Good
  <2>. HIDE DEF Good
  <2>. QED BY <1>1, <1>2, <1>3, UpTo
<1>. QED BY <1>1, <1>4

\* The files that the wrapper looks for, of the job at hand.
Looked == {Path(sample, job, log, h, k) : log \in ToSet(LogNames) \ Removed(o.flags), h \in HostSet, k \in 1..NumJobs}

LEMMA LookedIs ==
  \A p : p \in Looked <=>
    \E log \in ToSet(LogNames) \ Removed(o.flags), h \in HostSet, k \in 1..NumJobs :
      p = Path(sample, job, log, h, k)
BY DEF Looked

\* The three loops come to these files and to no other.
LEMMA TriplesLooked ==
  ASSUME NumJobs \in Nat, Hosts \in Seq(HostSet)
  PROVE  Triples \in Seq(Looked) /\ \A p \in Looked : \E m \in 1..Len(Triples) : Triples[m] = p
<1>. DEFINE T == Looked
            Of(i, h) == [n \in 1..NumJobs |-> Path(sample, job, LogNames[i], Hosts[h], n)]
            OfLog(i) == IF LogNames[i] \in Removed(o.flags) THEN <<>>
                        ELSE FlattenSeq([h \in 1..Len(Hosts) |-> Of(i, h)])
            All == [i \in 1..Len(LogNames) |-> OfLog(i)]
<1>1. Len(LogNames) = 5 /\ \A i \in 1..5 : LogNames[i] \in ToSet(LogNames)
  BY DEF LogNames, ToSet
<1>2. ToSet(LogNames) = {LogNames[i] : i \in 1..5}
  BY DEF LogNames, ToSet
<1>3. HostSet = {Hosts[h] : h \in 1..Len(Hosts)} /\ Len(Hosts) \in Nat
  BY DEF HostSet, ToSet
<1>4. ASSUME NEW i \in 1..5, LogNames[i] \notin Removed(o.flags)
      PROVE  [h \in 1..Len(Hosts) |-> Of(i, h)] \in Seq(Seq(T))
  <2>1. ASSUME NEW h \in 1..Len(Hosts) PROVE Of(i, h) \in Seq(T)
    <3>1. ASSUME NEW n \in 1..NumJobs PROVE Path(sample, job, LogNames[i], Hosts[h], n) \in T
      <4>1. LogNames[i] \in ToSet(LogNames) \ Removed(o.flags) /\ Hosts[h] \in HostSet
        BY <1>1, <1>3, <1>4
      <4>. QED BY <4>1, LookedIs
    <3>. HIDE DEF T
    <3>. QED BY <3>1
  <2>. HIDE DEF T, Of
  <2>. QED BY <1>3, <2>1
<1>5. ASSUME NEW i \in 1..5 PROVE OfLog(i) \in Seq(T)
  <2>1. CASE LogNames[i] \in Removed(o.flags)
    BY <2>1
  <2>2. CASE LogNames[i] \notin Removed(o.flags)
    <3>. DEFINE seqs == [h \in 1..Len(Hosts) |-> Of(i, h)]
    <3>1. seqs \in Seq(Seq(T))
      BY <1>4, <2>2
    <3>2. FlattenSeq(seqs) \in Seq(T)
      <4>. HIDE DEF seqs, T
      <4>. QED BY <3>1, FlattenType
    <3>. HIDE DEF T
    <3>. QED BY <2>2, <3>2
  <2>. QED BY <2>1, <2>2
<1>6. All \in Seq(Seq(T)) /\ Len(All) = 5
  <2>. HIDE DEF OfLog, T
  <2>. QED BY <1>1, <1>5
<1>7. Triples = FlattenSeq(All)
  BY DEF Triples
<1>8. Triples \in Seq(Looked)
  <2>. HIDE DEF All
  <2>. QED BY <1>6, <1>7, FlattenType
<1>9. ASSUME NEW p \in Looked PROVE \E m \in 1..Len(Triples) : Triples[m] = p
  <2>1. PICK i \in 1..5, h \in 1..Len(Hosts), n \in 1..NumJobs :
          LogNames[i] \notin Removed(o.flags) /\ p = Path(sample, job, LogNames[i], Hosts[h], n)
    <3>1. PICK log \in ToSet(LogNames) \ Removed(o.flags), host \in HostSet, n \in 1..NumJobs :
            p = Path(sample, job, log, host, n)
      BY LookedIs
    <3>2. PICK i \in 1..5 : LogNames[i] = log
      BY <1>2
    <3>3. PICK h \in 1..Len(Hosts) : Hosts[h] = host
      BY <1>3
    <3>. QED BY <3>1, <3>2, <3>3
  <2>. DEFINE seqs == [e \in 1..Len(Hosts) |-> Of(i, e)]
  <2>2. seqs \in Seq(Seq(T)) /\ Len(seqs) = Len(Hosts) /\ seqs[h] = Of(i, h)
    <3>1. seqs \in Seq(Seq(T))
      BY <1>4, <2>1
    <3>. HIDE DEF T, Of
    <3>. QED BY <1>3, <3>1
  <2>3. n \in 1..Len(seqs[h]) /\ seqs[h][n] = p
    BY <2>1, <2>2
  <2>4. PICK j \in 1..Len(FlattenSeq(seqs)) : FlattenSeq(seqs)[j] = p
    <3>. HIDE DEF seqs, T, Of
    <3>. QED BY <2>2, <2>3, FlattenMember
  <2>5. All[i] = FlattenSeq(seqs)
    BY <1>1, <2>1
  <2>6. j \in 1..Len(All[i]) /\ All[i][j] = p /\ i \in 1..Len(All)
    <3>. HIDE DEF All, seqs
    <3>. QED BY <1>6, <2>4, <2>5
  <2>. HIDE DEF All, T
  <2>7. \E m \in 1..Len(FlattenSeq(All)) : FlattenSeq(All)[m] = All[i][j]
    <3>. DEFINE lists == All
    <3>1. lists \in Seq(Seq(T)) /\ i \in 1..Len(lists) /\ j \in 1..Len(lists[i])
      BY <1>6, <2>6
    <3>. HIDE DEF lists
    <3>2. \E m \in 1..Len(FlattenSeq(lists)) : FlattenSeq(lists)[m] = lists[i][j]
      BY ONLY <3>1, FlattenMember
    <3>. QED BY <3>2 DEF lists
  <2>. QED BY <1>7, <2>6, <2>7
<1>. QED BY <1>8, <1>9

\* The options, where the loops are, and which hosts have logs and start times.
FioTypeOK ==
  /\ jobs \in JobLists /\ global \in GlobalChoices
  /\ sample \in 1..NSamples /\ job \in 1..NJobs
  /\ wrote \subseteq HostSet /\ fio_starttime \subseteq HostSet
  /\ fioRun \in Nat \ {0}
  /\ \A f \in DOMAIN files : f.sample \in 1..NSamples /\ f.job \in 1..NJobs

LEMMA NumJobsType ==
  ASSUME FioTypeOK
  PROVE  NumJobs \in Nat /\ Hosts \in Seq(HostSet)
BY FioAssumption DEF FioTypeOK, NumJobs, o, HostSet

\* There is always a log to be read: that of iops cannot be disabled.
LEMMA IopsLooked ==
  ASSUME NumJobs \in Nat \ {0}, NEW h \in HostSet
  PROVE  Path(sample, job, "iops", h, 1) \in Looked
<1>1. "iops" \in ToSet(LogNames)
  <2>1. LogNames[2] = "iops" /\ 2 \in DOMAIN LogNames
    BY DEF LogNames
  <2>. QED BY <2>1 DEF ToSet
<1>2. "iops" \notin Removed(o.flags)
  BY DEF Removed, Disables
<1>3. 1 \in 1..NumJobs
  OBVIOUS
<1>. QED BY <1>1, <1>2, <1>3, LookedIs

\* What is known when all logs of a job are read.
LEMMA PayloadWhole ==
  ASSUME FioTypeOK, LogPayload.end = "none"
  PROVE  /\ NumJobs \in Nat \ {0}
         /\ HostSet \subseteq fio_starttime
         /\ \A p \in Looked : Named(p.log) => p \in DOMAIN files
         /\ HostSet # {} => \E p \in Looked : Named(p.log)
         /\ (\A p \in Looked : Named(p.log)) =>
              LogPayload.docs = {[of |-> p, from |-> p] : p \in Looked}
<1>1. LogPayload = FoldLeft(ReadLog, Begun, Triples) /\ NumJobs # 0
  BY DEF LogPayload, Begun
<1>2. NumJobs \in Nat \ {0} /\ Hosts \in Seq(HostSet)
  BY <1>1, NumJobsType
<1>. DEFINE seq == Triples
            n == Len(seq)
<1>3. seq \in Seq(Looked) /\ \A p \in Looked : \E m \in 1..n : seq[m] = p
  BY <1>2, TriplesLooked
<1>. HIDE DEF seq
<1>4. PICK acc \in [0..n -> Accumulators(Looked)] :
        Reading(acc, seq, n) /\ FoldLeft(ReadLog, Begun, seq) = acc[n]
  BY <1>3, PayloadReads
<1>5. Came(acc, seq, n)
  BY <1>3, <1>4, CameFrom
<1>6. acc[n] = LogPayload
  BY <1>1, <1>4 DEF seq
<1>7. /\ \A i \in 1..n : seq[i].host \in fio_starttime
      /\ \A i \in 1..n : Named(seq[i].log) => seq[i] \in DOMAIN files
      /\ (\A i \in 1..n : ~Named(seq[i].log)) => n = 0
      /\ (\A i \in 1..n : Named(seq[i].log)) => acc[n].docs = {[of |-> seq[i], from |-> seq[i]] : i \in 1..n}
  BY <1>5, <1>6 DEF Came
<1>8. \A i \in 1..n : seq[i] \in Looked
  BY <1>3
<1>9. ASSUME NEW h \in HostSet
      PROVE  h \in fio_starttime /\ \E p \in Looked : Named(p.log)
  <2>. DEFINE p == Path(sample, job, "iops", h, 1)
  <2>1. p \in Looked /\ p.host = h
    BY <1>2, IopsLooked DEF Path
  <2>2. PICK m \in 1..n : seq[m] = p
    <3>. HIDE DEF p
    <3>. QED BY <1>3, <2>1
  <2>. HIDE DEF p
  <2>3. n # 0
    BY <1>3, <2>2
  <2>. QED BY <1>7, <1>8, <2>1, <2>2, <2>3
<1>10. \A p \in Looked : Named(p.log) => p \in DOMAIN files
  BY <1>3, <1>7
<1>11. ASSUME \A p \in Looked : Named(p.log)
       PROVE  LogPayload.docs = {[of |-> p, from |-> p] : p \in Looked}
  <2>1. LogPayload.docs = {[of |-> seq[i], from |-> seq[i]] : i \in 1..n}
    BY <1>6, <1>7, <1>8, <1>11
  <2>. QED BY <1>3, <1>8, <2>1
<1>. QED BY <1>2, <1>9, <1>10, <1>11

\* However the reading ends, its documents are of files that were looked for.
LEMMA PayloadType ==
  ASSUME FioTypeOK
  PROVE  LogPayload \in Accumulators(Looked)
<1>1. CASE WrongFormat
  BY <1>1 DEF LogPayload, Begun, Accumulators
<1>2. CASE ~WrongFormat /\ (DoubleDelete \/ NumJobs = 0)
  BY <1>2 DEF LogPayload, Begun, Accumulators
<1>3. CASE ~WrongFormat /\ ~(DoubleDelete \/ NumJobs = 0)
  <2>1. LogPayload = FoldLeft(ReadLog, Begun, Triples)
    BY <1>3 DEF LogPayload
  <2>2. Triples \in Seq(Looked)
    BY NumJobsType, TriplesLooked
  <2>. DEFINE seq == Triples
  <2>3. seq \in Seq(Looked) /\ LogPayload = FoldLeft(ReadLog, Begun, seq)
    BY <2>1, <2>2
  <2>. HIDE DEF seq
  <2>4. PICK acc \in [0..Len(seq) -> Accumulators(Looked)] : FoldLeft(ReadLog, Begun, seq) = acc[Len(seq)]
    BY <2>3, PayloadReads
  <2>5. Len(seq) \in 0..Len(seq)
    BY <2>3
  <2>. QED BY <2>3, <2>4, <2>5
<1>. QED BY <1>1, <1>2, <1>3

\* In directories that were empty, a log is of a job that is over, or of the job at hand
\* and of a host whose fio wrote its logs.
FreshFiles ==
  fioRun = 1 /\ fioAt \in {"sample", "fio", "logs", "trigger"} =>
    \A f \in DOMAIN files :
      \/ f.sample < sample
      \/ f.sample = sample /\ f.job < job
      \/ fioAt \in {"logs", "trigger"} /\ f.sample = sample /\ f.job = job /\ f.host \in wrote

Indexed(s, j) == FullyNamed(j) => \A p \in Expected(s, j) : \E d \in logged : d.of = p

\* The documents are right, and when a job is over they are all there.
LogsWhole ==
  /\ \A d \in logged :
       FullyNamed(d.of.job) => d.from = d.of /\ d.of \in Expected(d.of.sample, d.of.job)
  /\ fioAt = "trigger" => Indexed(sample, job)
  /\ \A t \in triggered : Indexed(t[1], t[2])

HostsFound ==
  fioAt = "trigger" => fio_starttime = HostSet /\ (fioRun = 1 => wrote = HostSet)

FioIInv == FioTypeOK /\ FreshFiles /\ LogsWhole /\ HostsFound

\* What a job is to leave behind is said by the options, which stay.
LEMMA ExpectedKept ==
  ASSUME jobs' = jobs, global' = global
  PROVE  \A s, j : (FullyNamed(j)' <=> FullyNamed(j)) /\ Expected(s, j)' = Expected(s, j)
<1>. TAKE s, j
<1>1. FullyNamed(j)' <=> FullyNamed(j)
  BY DEF FullyNamed, GlobalPrefixes
<1>2. Expected(s, j)' = Expected(s, j)
  BY DEF Expected, HostSet
<1>. QED BY <1>1, <1>2

\* It is what the wrapper looks for.
LEMMA ExpectedLooked ==
  ASSUME NumJobs \in Nat \ {0}
  PROVE  /\ \A p : p \in Expected(sample, job) <=> p \in Looked
         /\ FullyNamed(job) => \A p \in Looked : Named(p.log)
<1>1. NumJobs = IF o.numjobs > 0 THEN o.numjobs ELSE global.numjobs
  BY DEF NumJobs
<1>2. Expected(sample, job) = Looked
  BY <1>1 DEF Expected, Looked, o
<1>3. ASSUME FullyNamed(job), NEW p \in Looked PROVE Named(p.log)
  <2>1. p.log \in ToSet(LogNames) \ Removed(o.flags)
    BY LookedIs DEF Path
  <2>. QED BY <1>3, <2>1 DEF FullyNamed, Named, o
<1>. QED BY <1>2, <1>3

LEMMA FioIInvEnough == FioIInv => LogsComplete /\ SilentFailureFound
<1>. SUFFICES ASSUME FioIInv PROVE LogsComplete /\ SilentFailureFound
  OBVIOUS
<1>1. SilentFailureFound
  BY DEF FioIInv, HostsFound, SilentFailureFound
<1>2. ASSUME NEW t \in triggered, FullyNamed(t[2])
      PROVE  LET docs == {d \in logged : d.of.sample = t[1] /\ d.of.job = t[2]}
             IN  /\ {d.of : d \in docs} = Expected(t[1], t[2])
                 /\ \A d \in docs : d.from = d.of
  <2>. DEFINE docs == {d \in logged : d.of.sample = t[1] /\ d.of.job = t[2]}
  <2>1. \A d \in docs : d.from = d.of /\ d.of \in Expected(t[1], t[2])
    BY <1>2 DEF FioIInv, LogsWhole
  <2>2. ASSUME NEW p \in Expected(t[1], t[2]) PROVE \E d \in docs : d.of = p
    <3>1. PICK d \in logged : d.of = p
      BY <1>2 DEF FioIInv, LogsWhole, Indexed
    <3>2. p.sample = t[1] /\ p.job = t[2]
      BY DEF Expected, Path
    <3>. QED BY <3>1, <3>2
  <2>. HIDE DEF docs
  <2>3. {d.of : d \in docs} = Expected(t[1], t[2])
    BY <2>1, <2>2
  <2>. QED BY <2>1, <2>3 DEF docs
<1>. QED BY <1>1, <1>2 DEF LogsComplete

LEMMA FioIInvInit == Init => FioIInv
<1>. SUFFICES ASSUME Init PROVE FioIInv
  OBVIOUS
<1>1. jobs \in JobLists /\ global \in GlobalChoices /\ sample = 1 /\ job = 1 /\ wrote = {} /\ fio_starttime = {}
  BY DEF Init, FioInit
<1>2. fioRun = 1 /\ fioAt = "sample" /\ DOMAIN files = {} /\ logged = {} /\ triggered = {}
  BY DEF Init, FioInit
<1>3. 1 \in 1..NSamples /\ 1 \in 1..NJobs /\ 1 \in Nat \ {0}
  BY FioAssumption
<1>. QED BY <1>1, <1>2, <1>3 DEF FioIInv, FioTypeOK, FreshFiles, LogsWhole, HostsFound

\* Logs and documents that stay as they are, for the steps that leave them alone.
LEMMA LogsStay ==
  ASSUME LogsWhole, jobs' = jobs, global' = global, logged' = logged, triggered' = triggered,
         fioAt' # "trigger"
  PROVE  LogsWhole'
<1>1. \A s, j : (FullyNamed(j)' <=> FullyNamed(j)) /\ Expected(s, j)' = Expected(s, j)
  BY ExpectedKept
<1>2. \A s, j : Indexed(s, j)' <=> Indexed(s, j)
  BY <1>1 DEF Indexed
<1>3. ASSUME NEW d \in logged, FullyNamed(d.of.job)'
      PROVE  d.from = d.of /\ d.of \in Expected(d.of.sample, d.of.job)'
  BY <1>1, <1>3 DEF LogsWhole
<1>4. \A t \in triggered : Indexed(t[1], t[2])'
  BY <1>2 DEF LogsWhole
<1>. QED BY <1>3, <1>4 DEF LogsWhole

LEMMA FioEndsWellKeeps ==
  ASSUME FioIInv, NEW ok \in SUBSET HostSet, NEW reported \in SUBSET HostSet,
         FioEndsWell(ok, reported)
  PROVE  FioIInv'
<1>1. /\ fioAt = "fio" /\ wrote' = ok /\ fio_starttime' = reported /\ fioAt' \in {"raised", "logs"}
      /\ jobs' = jobs /\ global' = global /\ fioRun' = fioRun /\ sample' = sample /\ job' = job
      /\ logged' = logged /\ triggered' = triggered
  BY DEF FioEndsWell, given
<1>. DEFINE new == WrittenBy(ok)
<1>2. DOMAIN files' = DOMAIN files \cup new
  <2>1. files' = [p \in new \cup DOMAIN files |-> IF p \in new THEN fioRun ELSE files[p]]
    BY DEF FioEndsWell
  <2>. HIDE DEF new
  <2>. QED BY <2>1
<1>3. ASSUME NEW f \in new
      PROVE  f.sample = sample /\ f.job = job /\ f.host \in ok
  BY DEF WrittenBy, Path
<1>. HIDE DEF new
<1>4. FioTypeOK'
  BY <1>1, <1>2, <1>3 DEF FioIInv, FioTypeOK, HostSet
<1>5. FreshFiles'
  BY <1>1, <1>2, <1>3 DEF FioIInv, FreshFiles
<1>6. LogsWhole'
  BY <1>1, LogsStay DEF FioIInv
<1>. QED BY <1>1, <1>4, <1>5, <1>6 DEF FioIInv, HostsFound

LEMMA CollectLogsKeeps ==
  ASSUME FioIInv, CollectLogs
  PROVE  FioIInv'
<1>1. /\ fioAt = "logs" /\ wrote' = wrote /\ fio_starttime' = fio_starttime /\ files' = files
      /\ jobs' = jobs /\ global' = global /\ fioRun' = fioRun /\ sample' = sample /\ job' = job
      /\ triggered' = triggered
  BY DEF CollectLogs, GoOn, given
<1>2. FioTypeOK'
  BY <1>1 DEF FioIInv, FioTypeOK, HostSet
<1>3. CASE LogPayload.end # "none"
  <2>1. fioAt' = LogPayload.end /\ logged' = logged
    BY <1>3 DEF CollectLogs, GoOn
  <2>2. LogPayload.end \in {"exit", "raised"}
    BY <1>3, PayloadType DEF FioIInv, Accumulators
  <2>3. LogsWhole'
    BY <1>1, <2>1, <2>2, LogsStay DEF FioIInv
  <2>. QED BY <1>1, <1>2, <2>1, <2>2, <2>3 DEF FioIInv, FreshFiles, HostsFound
<1>4. CASE LogPayload.end = "none"
  <2>. DEFINE docs == LogPayload.docs
  <2>1. fioAt' = "trigger" /\ logged' = logged \cup docs
    BY <1>4 DEF CollectLogs
  <2>2. /\ NumJobs \in Nat \ {0} /\ HostSet \subseteq fio_starttime
        /\ \A p \in Looked : Named(p.log) => p \in DOMAIN files
        /\ HostSet # {} => \E p \in Looked : Named(p.log)
        /\ (\A p \in Looked : Named(p.log)) => docs = {[of |-> p, from |-> p] : p \in Looked}
    BY <1>4, PayloadWhole DEF FioIInv
  <2>3. \A d \in docs : d.of \in Looked
    BY PayloadType DEF FioIInv, Accumulators
  <2>. HIDE DEF docs
  <2>4. /\ \A p : p \in Expected(sample, job) <=> p \in Looked
        /\ FullyNamed(job) => \A p \in Looked : Named(p.log)
    BY <2>2, ExpectedLooked
  <2>5. ASSUME NEW h \in HostSet, fioRun = 1 PROVE h \in wrote
    <3>1. PICK p \in Looked : Named(p.log)
      BY <2>2
    <3>2. PICK log \in ToSet(LogNames) \ Removed(o.flags), g \in HostSet, k \in 1..NumJobs :
            p = Path(sample, job, log, g, k)
      BY LookedIs
    <3>. DEFINE f == Path(sample, job, log, h, k)
    <3>3. f \in Looked
      BY LookedIs
    <3>4. f.log = log /\ p.log = log /\ f.host = h /\ f.sample = sample /\ f.job = job
      BY <3>2 DEF Path
    <3>. HIDE DEF f
    <3>5. f \in DOMAIN files
      BY <2>2, <3>1, <3>3, <3>4
    <3>6. sample \in Nat /\ job \in Nat
      BY FioAssumption DEF FioIInv, FioTypeOK
    <3>. QED BY <1>1, <2>5, <3>4, <3>5, <3>6 DEF FioIInv, FreshFiles
  <2>6. HostsFound'
    BY <1>1, <2>2, <2>5 DEF FioIInv, FioTypeOK, HostsFound, HostSet
  <2>7. FreshFiles'
    BY <1>1, <2>1 DEF FioIInv, FreshFiles
  <2>8. \A s, j : (FullyNamed(j)' <=> FullyNamed(j)) /\ Expected(s, j)' = Expected(s, j)
    BY <1>1, ExpectedKept
  <2>9. ASSUME NEW s, NEW j, Indexed(s, j) PROVE Indexed(s, j)'
    BY <2>1, <2>8, <2>9 DEF Indexed
  <2>10. Indexed(sample, job)'
    <3>1. PICK s, j : s = sample /\ j = job
      OBVIOUS
    <3>2. ASSUME FullyNamed(j), NEW p \in Expected(s, j) PROVE \E d \in logged' : d.of = p
      <4>1. p \in Looked /\ docs = {[of |-> e, from |-> e] : e \in Looked}
        BY <2>2, <2>4, <3>1, <3>2
      <4>2. [of |-> p, from |-> p] \in docs /\ [of |-> p, from |-> p].of = p
        BY <4>1
      <4>. QED BY <2>1, <4>2
    <3>3. Indexed(s, j)'
      BY <2>8, <3>2 DEF Indexed
    <3>. QED BY <1>1, <3>1, <3>3
  <2>11. ASSUME NEW d \in logged', FullyNamed(d.of.job)
         PROVE  d.from = d.of /\ d.of \in Expected(d.of.sample, d.of.job)
    <3>1. CASE d \in logged
      BY <2>11, <3>1 DEF FioIInv, LogsWhole
    <3>2. CASE d \in docs
      <4>1. d.of.sample = sample /\ d.of.job = job
        BY <2>3, <3>2, LookedIs DEF Path
      <4>2. docs = {[of |-> e, from |-> e] : e \in Looked}
        BY <2>2, <2>4, <2>11, <4>1
      <4>. QED BY <2>4, <3>2, <4>1, <4>2
    <3>. QED BY <2>1, <3>1, <3>2
  <2>12. LogsWhole'
    BY <1>1, <2>8, <2>9, <2>10, <2>11 DEF FioIInv, LogsWhole
  <2>. QED BY <1>2, <2>6, <2>7, <2>12 DEF FioIInv
<1>. QED BY <1>3, <1>4

LEMMA EndJobKeeps ==
  ASSUME FioIInv, EndJob
  PROVE  FioIInv'
<1>1. /\ fioAt = "trigger" /\ wrote' = {} /\ fio_starttime' = {} /\ files' = files
      /\ jobs' = jobs /\ global' = global /\ fioRun' = fioRun /\ logged' = logged
      /\ triggered' = triggered \cup {<<sample, job>>}
      /\ job' = IF job < NJobs THEN job + 1 ELSE 1
      /\ sample' = IF job < NJobs \/ sample = NSamples THEN sample ELSE sample + 1
      /\ fioAt' = IF job < NJobs THEN "fio" ELSE IF sample < NSamples THEN "sample" ELSE "analyze"
  BY DEF EndJob, given
<1>2. sample \in 1..NSamples /\ job \in 1..NJobs /\ NSamples \in Nat \ {0} /\ NJobs \in Nat \ {0}
  BY FioAssumption DEF FioIInv, FioTypeOK
<1>3. sample' \in 1..NSamples /\ job' \in 1..NJobs
  BY <1>1, <1>2
<1>4. FioTypeOK'
  BY <1>1, <1>3 DEF FioIInv, FioTypeOK
<1>5. FreshFiles'
  <2>1. ASSUME NEW f \in DOMAIN files, fioRun = 1, fioAt' \in {"sample", "fio"}
        PROVE  f.sample < sample' \/ (f.sample = sample' /\ f.job < job')
    <3>1. f.sample \in 1..NSamples /\ f.job \in 1..NJobs
      BY DEF FioIInv, FioTypeOK
    <3>2. f.sample < sample \/ (f.sample = sample /\ f.job < job) \/ (f.sample = sample /\ f.job = job)
      BY <1>1, <2>1 DEF FioIInv, FreshFiles
    <3>3. CASE job < NJobs
      BY <1>1, <1>2, <3>1, <3>2, <3>3
    <3>4. CASE ~(job < NJobs)
      <4>1. sample < NSamples /\ sample' = sample + 1
        BY <1>1, <1>2, <2>1, <3>4
      <4>. QED BY <1>2, <3>1, <3>2, <4>1
    <3>. QED BY <3>3, <3>4
  <2>. QED BY <1>1, <2>1 DEF FreshFiles
<1>6. LogsWhole'
  <2>1. \A s, j : (FullyNamed(j)' <=> FullyNamed(j)) /\ Expected(s, j)' = Expected(s, j)
    BY <1>1, ExpectedKept
  <2>2. \A s, j : Indexed(s, j)' <=> Indexed(s, j)
    BY <1>1, <2>1 DEF Indexed
  <2>3. ASSUME NEW t \in triggered' PROVE Indexed(t[1], t[2])
    <3>1. CASE t \in triggered
      BY <3>1 DEF FioIInv, LogsWhole
    <3>2. CASE t = <<sample, job>>
      BY <1>1, <3>2 DEF FioIInv, LogsWhole
    <3>. QED BY <1>1, <3>1, <3>2
  <2>. QED BY <1>1, <2>1, <2>2, <2>3 DEF FioIInv, LogsWhole
<1>. QED BY <1>1, <1>4, <1>5, <1>6 DEF FioIInv, HostsFound

LEMMA OtherFioStepsKeep ==
  ASSUME FioIInv,
         \/ \E answer \in {"SUCCESS", "error", "failed"} : DropOsdCaches(answer)
         \/ FioFails \/ Analyze \/ RunAgain
  PROVE  FioIInv'
<1>1. CASE \E answer \in {"SUCCESS", "error", "failed"} : DropOsdCaches(answer)
  <2>1. /\ fioAt = "sample" /\ fioAt' \in {"fio", "raised"} /\ wrote' = wrote /\ fio_starttime' = fio_starttime
        /\ files' = files /\ jobs' = jobs /\ global' = global /\ fioRun' = fioRun /\ logged' = logged
        /\ triggered' = triggered /\ job' = job /\ sample' = sample
    BY <1>1 DEF DropOsdCaches, given
  <2>2. FioTypeOK'
    BY <2>1 DEF FioIInv, FioTypeOK, HostSet
  <2>3. LogsWhole'
    BY <2>1, LogsStay DEF FioIInv
  <2>. QED BY <2>1, <2>2, <2>3 DEF FioIInv, FreshFiles, HostsFound
<1>2. CASE FioFails \/ Analyze
  <2>1. /\ fioAt' \in {"exit", "raised", "done"} /\ wrote' = wrote /\ fio_starttime' = fio_starttime
        /\ files' = files /\ jobs' = jobs /\ global' = global /\ fioRun' = fioRun /\ logged' = logged
        /\ triggered' = triggered /\ job' = job /\ sample' = sample
    BY <1>2 DEF FioFails, Analyze, GoOn, given
  <2>2. FioTypeOK'
    BY <2>1 DEF FioIInv, FioTypeOK, HostSet
  <2>3. LogsWhole'
    BY <2>1, LogsStay DEF FioIInv
  <2>. QED BY <2>1, <2>2, <2>3 DEF FioIInv, FreshFiles, HostsFound
<1>3. CASE RunAgain
  <2>1. /\ fioAt' = "sample" /\ wrote' = {} /\ fio_starttime' = {} /\ files' = files
        /\ jobs' = jobs /\ global' = global /\ fioRun' = fioRun + 1 /\ logged' = {}
        /\ triggered' = {} /\ job' = 1 /\ sample' = 1
    BY <1>3 DEF RunAgain
  <2>2. 1 \in 1..NSamples /\ 1 \in 1..NJobs
    BY FioAssumption
  <2>3. fioRun \in Nat \ {0}
    BY DEF FioIInv, FioTypeOK
  <2>4. fioRun' \in Nat \ {0} /\ fioRun' # 1
    BY <2>1, <2>3
  <2>5. FioTypeOK'
    BY <2>1, <2>2, <2>4 DEF FioIInv, FioTypeOK
  <2>. QED BY <2>1, <2>4, <2>5 DEF FioIInv, FreshFiles, LogsWhole, HostsFound
<1>. QED BY <1>1, <1>2, <1>3

LEMMA FioIInvStep == FioIInv /\ [Next]_vars => FioIInv'
<1>. SUFFICES ASSUME FioIInv, [Next]_vars PROVE FioIInv'
  OBVIOUS
<1>1. CASE FioNext
  BY <1>1, FioEndsWellKeeps, CollectLogsKeeps, EndJobKeeps, OtherFioStepsKeep DEF FioNext
<1>2. CASE UNCHANGED fioVars
  <2>1. /\ fioAt' = fioAt /\ wrote' = wrote /\ fio_starttime' = fio_starttime
        /\ files' = files /\ jobs' = jobs /\ global' = global /\ fioRun' = fioRun /\ logged' = logged
        /\ triggered' = triggered /\ job' = job /\ sample' = sample
    BY <1>2 DEF fioVars
  <2>2. FioTypeOK'
    BY <2>1 DEF FioIInv, FioTypeOK, HostSet
  <2>3. \A s, j : (FullyNamed(j)' <=> FullyNamed(j)) /\ Expected(s, j)' = Expected(s, j)
    BY <2>1, ExpectedKept
  <2>4. \A s, j : Indexed(s, j)' <=> Indexed(s, j)
    BY <2>1, <2>3 DEF Indexed
  <2>5. LogsWhole'
    <3>1. ASSUME fioAt = "trigger" PROVE Indexed(sample, job)'
      <4>1. PICK s, j : s = sample /\ j = job
        OBVIOUS
      <4>2. Indexed(s, j)'
        BY <2>4, <3>1, <4>1 DEF FioIInv, LogsWhole
      <4>. QED BY <2>1, <4>1, <4>2
    <3>2. \A t \in triggered : Indexed(t[1], t[2])'
      BY <2>4 DEF FioIInv, LogsWhole
    <3>3. ASSUME NEW d \in logged, FullyNamed(d.of.job)'
          PROVE  d.from = d.of /\ d.of \in Expected(d.of.sample, d.of.job)'
      BY <2>3, <3>3 DEF FioIInv, LogsWhole
    <3>. QED BY <2>1, <3>1, <3>2, <3>3 DEF LogsWhole
  <2>6. FreshFiles' /\ HostsFound'
    BY <2>1 DEF FioIInv, FreshFiles, HostsFound, HostSet
  <2>. QED BY <2>2, <2>5, <2>6 DEF FioIInv
<1>. QED BY <1>1, <1>2 DEF Next, vars, fioBoth, otherVars, Fio, Histogram, Drift, Blame, Matrix

\* When a job of the fio wrapper is over, each log of each host is indexed, and each document
\* is from the file of its own log (_log_payload), in the first run and in those over its
\* directories.
THEOREM LogsOfEveryJob == Spec => []LogsComplete
<1>1. FioIInv => LogsComplete
  BY FioIInvEnough
<1>. QED BY <1>1, FioIInvInit, FioIInvStep, PTL DEF Spec

\* In empty directories a failure of fio that ends with code 0 is found by the logs that are
\* not there, before the next job (_fio, _log_payload).
THEOREM NoFailurePassedOver == Spec => []SilentFailureFound
<1>1. FioIInv => SilentFailureFound
  BY FioIInvEnough
<1>. QED BY <1>1, FioIInvInit, FioIInvStep, PTL DEF Spec
-----------------------------------------------------------------------------
(* The analyzer of the fio wrapper                                         *)

Grid == (1..NSamples) \X (1..NJobs) \X HostSet

\* What fio reports of host h for job j in sample s.
Result(s, j, h) ==
  [sample |-> s, job |-> j, rw |-> jobs[j].rw, bs |-> jobs[j].bs, host |-> h,
   read |-> Iops(s, j, jobs[j].rw, h).read, write |-> Iops(s, j, jobs[j].rw, h).write]

\* The jobs, samples and hosts that do an operation, and what was measured of each.
Done(rw) == {x \in Grid : jobs[x[2]].rw = rw}
Reads(rw)  == [x \in Done(rw) |-> Iops(x[1], x[2], rw, x[3]).read]
Writes(rw) == [x \in Done(rw) |-> Iops(x[1], x[2], rw, x[3]).write]

AnalysisRight(a) ==
  /\ a.samples = NSamples
  /\ a.read = SumFunction(Reads(a.operation))
  /\ a.write = SumFunction(Writes(a.operation))

LEMMA AnalysisWholeIs == AnalysisWhole <=> \A a \in analyzed : AnalysisRight(a)
BY Zenon DEF AnalysisWhole, AnalysisRight, Reads, Writes, Done, Grid

\* R has the results of all jobs in all samples on all hosts, and no other.
Complete(R) ==
  /\ \A r \in R : \E x \in Grid : r = Result(x[1], x[2], x[3])
  /\ \A x \in Grid : Result(x[1], x[2], x[3]) \in R

LEMMA GridFinite == FioAssumption => IsFiniteSet(Grid)
<1>. SUFFICES ASSUME FioAssumption PROVE IsFiniteSet(Grid)
  OBVIOUS
<1>1. NSamples \in Nat /\ NJobs \in Nat /\ Len(Hosts) \in Nat /\ HostSet = {Hosts[i] : i \in 1..Len(Hosts)}
  BY DEF FioAssumption, HostSet, ToSet
<1>2. IsFiniteSet(1..NSamples) /\ IsFiniteSet(1..NJobs) /\ IsFiniteSet(1..Len(Hosts))
  BY <1>1, FS_Interval
<1>3. IsFiniteSet(HostSet)
  <2>. DEFINE f == [i \in 1..Len(Hosts) |-> Hosts[i]]
  <2>1. f \in Surjection(1..Len(Hosts), HostSet)
    BY <1>1 DEF Surjection
  <2>. HIDE DEF f
  <2>. QED BY <1>2, <2>1, FS_Surjection
<1>4. IsFiniteSet((1..NJobs) \X HostSet)
  BY <1>2, <1>3, FS_Product
<1>. DEFINE pairs == (1..NSamples) \X ((1..NJobs) \X HostSet)
            f == [y \in pairs |-> <<y[1], y[2][1], y[2][2]>>]
<1>5. IsFiniteSet(pairs)
  BY <1>2, <1>4, FS_Product
<1>6. f \in Surjection(pairs, Grid)
  <2>1. ASSUME NEW x \in Grid PROVE \E y \in pairs : f[y] = x
    <3>1. <<x[1], <<x[2], x[3]>>>> \in pairs /\ x = <<x[1], x[2], x[3]>>
      BY DEF Grid
    <3>. QED BY <3>1
  <2>2. \A y \in pairs : f[y] \in Grid
    BY DEF Grid
  <2>. QED BY <2>1, <2>2 DEF Surjection
<1>. HIDE DEF pairs, f
<1>. QED BY <1>5, <1>6, FS_Surjection

LEMMA SumIsInt ==
  ASSUME NEW S, NEW f, Summable(f, S)
  PROVE  SumFunction(f) \in Int
<1>1. PICK it : Sums(it, f, S) /\ SumFunction(f) = it[S]
  BY SumOf
<1>2. it \in [SUBSET S -> Int]
  BY <1>1, SumsType
<1>. QED BY <1>1, <1>2

\* The values v of the results of an operation, added up by sample, and then over the samples.
BySample(R, rw, v) ==
  SumFunction([s \in 1..NSamples |-> SumFunction([r \in {e \in R : e.sample = s /\ e.rw = rw} |-> v[r]])])

\* The sums over the samples of the sums over what is done of an operation in each.
LEMMA SumOverSamples ==
  ASSUME NEW R, Complete(R), NEW rw, NEW v \in [R -> Int], NEW m \in [Done(rw) -> Int],
         \A x \in Done(rw) : v[Result(x[1], x[2], x[3])] = m[x]
  PROVE  BySample(R, rw, v) = SumFunction(m)
<1>. DEFINE D == Done(rw)
            S == {r \in R : r.rw = rw}
            K == 1..NSamples
            f == [r \in S |-> v[r]]
            key == [r \in S |-> r.sample]
            Group(s) == {r \in R : r.sample = s /\ r.rw = rw}
            g == [s \in K |-> SumFunction([r \in Group(s) |-> v[r]])]
            b == [x \in D |-> Result(x[1], x[2], x[3])]
<1>1. IsFiniteSet(D) /\ D \subseteq Grid
  BY GridFinite, FioAssumption, FS_Subset DEF Done
<1>2. \A x \in D : b[x] \in S
  BY <1>1 DEF Complete, Result, Done
<1>3. ASSUME NEW r \in S PROVE \E x \in D : b[x] = r
  <2>1. PICK x \in Grid : r = Result(x[1], x[2], x[3])
    BY DEF Complete
  <2>2. jobs[x[2]].rw = rw
    BY <2>1 DEF Result
  <2>. QED BY <2>1, <2>2 DEF Done
<1>4. \A x, y \in D : b[x] = b[y] => x = y
  <2>. SUFFICES ASSUME NEW x \in D, NEW y \in D, b[x] = b[y] PROVE x = y
    OBVIOUS
  <2>1. b[x].sample = x[1] /\ b[x].job = x[2] /\ b[x].host = x[3]
    BY DEF Result
  <2>2. b[y].sample = y[1] /\ b[y].job = y[2] /\ b[y].host = y[3]
    BY DEF Result
  <2>. QED BY <1>1, <2>1, <2>2 DEF Grid
<1>5. IsFiniteSet(S)
  <2>1. b \in Surjection(D, S)
    BY <1>2, <1>3 DEF Surjection
  <2>. HIDE DEF b, D, S
  <2>. QED BY <1>1, <2>1, FS_Surjection
<1>6. Summable(f, S) /\ Summable(m, D)
  BY <1>1, <1>5 DEF Summable
<1>7. SumFunction(m) = SumFunction(f)
  <2>1. \A x \in D : f[b[x]] = m[x]
    BY <1>2
  <2>. HIDE DEF f
  <2>2. Renames(b, D, S, m, f)
    BY <1>2, <1>4, <2>1 DEF Renames
  <2>3. StoodFor(b, D) = S
    <3>. HIDE DEF b, S, D
    <3>. QED BY <1>2, <1>3 DEF StoodFor
  <2>. HIDE DEF b, S, D
  <2>. QED BY <1>6, <2>2, <2>3, SumRenamed
<1>8. ASSUME NEW s \in K
      PROVE  Group(s) = WithKey(S, key, s) /\ Group(s) \subseteq S /\ [r \in Group(s) |-> v[r]] = [r \in WithKey(S, key, s) |-> f[r]]
  BY DEF WithKey
<1>9. \A r \in S : key[r] \in K
  BY DEF Complete, Result, Grid
<1>10. ASSUME NEW s \in K PROVE g[s] \in Int /\ g[s] = SumFunction([r \in WithKey(S, key, s) |-> f[r]])
  <2>. DEFINE ours == [r \in Group(s) |-> v[r]]
  <2>1. Summable(ours, Group(s))
    BY <1>5, <1>8, FS_Subset DEF Summable
  <2>2. SumFunction(ours) \in Int
    <3>. HIDE DEF ours, Group
    <3>. QED BY <2>1, SumIsInt
  <2>3. g[s] = SumFunction(ours)
    OBVIOUS
  <2>4. ours = [r \in WithKey(S, key, s) |-> f[r]]
    BY <1>8
  <2>. HIDE DEF ours, g, key, f, S
  <2>. QED BY <2>2, <2>3, <2>4
<1>11. NSamples \in Nat /\ IsFiniteSet(K)
  BY FioAssumption, FS_Interval
<1>12. g = [s \in K |-> g[s]]
  OBVIOUS
<1>. HIDE DEF g, f, key, S
<1>13. Summable(g, K)
  BY <1>10, <1>11, <1>12 DEF Summable
<1>14. Groups(f, S, g, K, key)
  BY <1>9, <1>10 DEF Groups
<1>15. SumFunction(f) = SumFunction(g)
  BY <1>6, <1>13, <1>14, SumByKey
<1>16. BySample(R, rw, v) = SumFunction(g)
  BY Zenon DEF BySample, g
<1>. QED BY <1>7, <1>15, <1>16

\* What the analyzer makes of the results of all jobs.
LEMMA AnalyzedRight ==
  ASSUME FioTypeOK, Complete(PerHost(results)), NEW a \in Analyzed(results, global)
  PROVE  AnalysisRight(a)
<1>. DEFINE R == PerHost(results)
<1>1. PICK rw \in operation_list(results) : a = Averaged(results, global, rw)
  BY DEF Analyzed
<1>2. PICK y \in Grid : jobs[y[2]].rw = rw
  <2>1. PICK r \in R : r.rw = rw
    BY DEF operation_list
  <2>2. PICK x \in Grid : r = Result(x[1], x[2], x[3])
    BY DEF Complete
  <2>. QED BY <2>1, <2>2 DEF Result
<1>3. sample_list(results) = 1..NSamples
  <2>1. ASSUME NEW r \in R PROVE r.sample \in 1..NSamples
    BY DEF Complete, Grid, Result
  <2>2. ASSUME NEW s \in 1..NSamples PROVE \E r \in R : r.sample = s
    <3>1. <<s, y[2], y[3]>> \in Grid
      BY DEF Grid
    <3>2. Result(s, y[2], y[3]) \in R
      BY <3>1 DEF Complete
    <3>. QED BY <3>2 DEF Result
  <2>3. sample_list(results) = {r.sample : r \in R}
    BY DEF sample_list
  <2>. HIDE DEF R
  <2>. QED BY <2>1, <2>2, <2>3
<1>4. Cardinality(1..NSamples) = NSamples
  <2>1. NSamples \in Nat /\ NSamples >= 1
    BY FioAssumption
  <2>2. Cardinality(1..NSamples) = IF 1 > NSamples THEN 0 ELSE NSamples - 1 + 1
    BY <2>1, FS_Interval
  <2>. QED BY <2>1, <2>2
<1>5. ASSUME NEW x \in Done(rw)
      PROVE  /\ Result(x[1], x[2], x[3]) \in R
             /\ Result(x[1], x[2], x[3]).read = Iops(x[1], x[2], rw, x[3]).read
             /\ Result(x[1], x[2], x[3]).write = Iops(x[1], x[2], rw, x[3]).write
  BY DEF Complete, Done, Result
<1>6. ASSUME NEW x \in Grid
      PROVE  {Iops(x[1], x[2], jobs[x[2]].rw, x[3]).read, Iops(x[1], x[2], jobs[x[2]].rw, x[3]).write} \subseteq Nat
  BY FioAssumption DEF Grid, HostSet, FioTypeOK
<1>7. ASSUME NEW r \in R PROVE r.read \in Int /\ r.write \in Int
  <2>1. PICK x \in Grid : r = Result(x[1], x[2], x[3])
    BY DEF Complete
  <2>. QED BY <1>6, <2>1 DEF Result
<1>8. Reads(rw) \in [Done(rw) -> Int] /\ Writes(rw) \in [Done(rw) -> Int]
  <2>1. ASSUME NEW x \in Done(rw)
        PROVE  Iops(x[1], x[2], rw, x[3]).read \in Int /\ Iops(x[1], x[2], rw, x[3]).write \in Int
    BY <1>6 DEF Done
  <2>. QED BY <2>1 DEF Reads, Writes
<1>. DEFINE reads == [r \in R |-> r.read]
            writes == [r \in R |-> r.write]
            Group(s) == {r \in R : r.sample = s /\ r.rw = rw}
<1>9. BySample(R, rw, reads) = SumFunction(Reads(rw))
  <2>1. reads \in [R -> Int] /\ \A x \in Done(rw) : reads[Result(x[1], x[2], x[3])] = Reads(rw)[x]
    BY <1>5, <1>7 DEF Reads
  <2>. HIDE DEF reads, R
  <2>2. Complete(R)
    BY DEF R
  <2>. QED BY <1>8, <2>1, <2>2, SumOverSamples
<1>10. BySample(R, rw, writes) = SumFunction(Writes(rw))
  <2>1. writes \in [R -> Int] /\ \A x \in Done(rw) : writes[Result(x[1], x[2], x[3])] = Writes(rw)[x]
    BY <1>5, <1>7 DEF Writes
  <2>. HIDE DEF writes, R
  <2>2. Complete(R)
    BY DEF R
  <2>. QED BY <1>8, <2>1, <2>2, SumOverSamples
<1>11. ASSUME NEW s
       PROVE  /\ [r \in Group(s) |-> r.read] = [r \in Group(s) |-> reads[r]]
              /\ [r \in Group(s) |-> r.write] = [r \in Group(s) |-> writes[r]]
  BY DEF Group
<1>12. ASSUME NEW s
       PROVE  /\ sumdoc(results, s, rw).read = SumFunction([r \in Group(s) |-> reads[r]])
              /\ sumdoc(results, s, rw).write = SumFunction([r \in Group(s) |-> writes[r]])
  <2>1. sumdoc(results, s, rw) = [read  |-> SumFunction([r \in Group(s) |-> r.read]),
                                  write |-> SumFunction([r \in Group(s) |-> r.write])]
    BY Zenon DEF sumdoc
  <2>. HIDE DEF Group, reads, writes
  <2>. QED BY <1>11, <2>1
<1>13. /\ a.operation = rw /\ a.samples = Cardinality(sample_list(results))
       /\ a.read = SumFunction([s \in sample_list(results) |-> sumdoc(results, s, rw).read])
       /\ a.write = SumFunction([s \in sample_list(results) |-> sumdoc(results, s, rw).write])
  BY <1>1 DEF Averaged
<1>. HIDE DEF Group, reads, writes, R
<1>14. a.read = SumFunction(Reads(rw)) /\ a.write = SumFunction(Writes(rw))
  <2>1. [s \in 1..NSamples |-> sumdoc(results, s, rw).read] = [s \in 1..NSamples |-> SumFunction([r \in Group(s) |-> reads[r]])]
    BY <1>12
  <2>2. [s \in 1..NSamples |-> sumdoc(results, s, rw).write] = [s \in 1..NSamples |-> SumFunction([r \in Group(s) |-> writes[r]])]
    BY <1>12
  <2>3. /\ BySample(R, rw, reads) = SumFunction([s \in 1..NSamples |-> SumFunction([r \in Group(s) |-> reads[r]])])
        /\ BySample(R, rw, writes) = SumFunction([s \in 1..NSamples |-> SumFunction([r \in Group(s) |-> writes[r]])])
    BY Zenon DEF BySample, Group
  <2>. QED BY <1>3, <1>9, <1>10, <1>13, <2>1, <2>2, <2>3
<1>. QED BY <1>3, <1>4, <1>13, <1>14 DEF AnalysisRight

\* A job whose fio ended well in this run, with its logs.
JobOver(s, j) ==
  \/ fioAt \in {"analyze", "done"}
  \/ fioAt \in {"sample", "fio", "logs", "trigger"} /\ (s < sample \/ (s = sample /\ j < job))
  \/ fioAt = "trigger" /\ s = sample /\ j = job

\* The results are of the jobs of this run, and when a job is over they are all there: the
\* logs of a host that did not report cannot be read.
ResultsWhole ==
  /\ \A r \in results :
       r.host = AllClients \/ \E x \in Grid : r = Result(x[1], x[2], x[3])
  /\ \A x \in Grid : JobOver(x[1], x[2]) => Result(x[1], x[2], x[3]) \in results
  /\ fioAt = "logs" => \A h \in fio_starttime : Result(sample, job, h) \in results

AnalysisIInv == FioIInv /\ ResultsWhole /\ AnalysisWhole

\* What a job reports is said by the options, which stay.
LEMMA ResultKept ==
  ASSUME jobs' = jobs
  PROVE  /\ \A s, j, h : Result(s, j, h)' = Result(s, j, h)
         /\ Grid' = Grid
         /\ \A a : AnalysisRight(a)' <=> AnalysisRight(a)
<1>1. Grid' = Grid
  BY DEF Grid, HostSet
<1>2. \A s, j, h : Result(s, j, h)' = Result(s, j, h)
  BY DEF Result
<1>3. \A rw : Done(rw)' = Done(rw)
  BY <1>1 DEF Done
<1>4. ASSUME NEW a PROVE AnalysisRight(a)' <=> AnalysisRight(a)
  <2>1. PICK rw : rw = a.operation
    OBVIOUS
  <2>2. Reads(rw)' = Reads(rw) /\ Writes(rw)' = Writes(rw)
    BY <1>3 DEF Reads, Writes
  <2>. QED BY <2>1, <2>2 DEF AnalysisRight
<1>. QED BY <1>1, <1>2, <1>4

\* Steps that add no results, to a state where no further job is over.
LEMMA ResultsStay ==
  ASSUME ResultsWhole, jobs' = jobs, results' = results,
         \A x \in Grid : JobOver(x[1], x[2])' => JobOver(x[1], x[2]), fioAt' # "logs"
  PROVE  ResultsWhole'
BY ResultKept DEF ResultsWhole

LEMMA AnalysisStays ==
  ASSUME AnalysisWhole, jobs' = jobs, analyzed' \subseteq analyzed
  PROVE  AnalysisWhole'
<1>1. \A a \in analyzed : AnalysisRight(a)
  BY AnalysisWholeIs
<1>2. \A a \in analyzed' : AnalysisRight(a)'
  BY <1>1, ResultKept
<1>3. AnalysisWhole' <=> (\A a \in analyzed : AnalysisRight(a))'
  BY AnalysisWholeIs, PTL
<1>. QED BY <1>2, <1>3

LEMMA FioEndsWellResults ==
  ASSUME AnalysisIInv, NEW ok \in SUBSET HostSet, NEW reported \in SUBSET HostSet,
         FioEndsWell(ok, reported)
  PROVE  ResultsWhole' /\ AnalysisWhole'
<1>1. /\ fioAt = "fio" /\ fio_starttime' = reported /\ jobs' = jobs
      /\ sample' = sample /\ job' = job /\ analyzed' = analyzed
  BY DEF FioEndsWell, given
<1>2. AnalysisWhole'
  BY <1>1, AnalysisStays DEF AnalysisIInv
<1>3. CASE fioAt' = "raised"
  <2>1. results' = results
    BY <1>3 DEF FioEndsWell
  <2>2. \A x \in Grid : ~JobOver(x[1], x[2])'
    BY <1>3 DEF JobOver
  <2>. QED BY <1>1, <1>2, <1>3, <2>1, <2>2, ResultsStay DEF AnalysisIInv
<1>4. CASE fioAt' # "raised"
  <2>1. fioAt' = "logs" /\ results' = results \cup Reports(reported) \cup Summary(reported)
    BY <1>4 DEF FioEndsWell
  <2>2. \A h \in reported : Result(sample, job, h) \in Reports(reported)
    BY DEF Result, Reports, o
  <2>3. \A r \in Reports(reported) : \E h \in reported : r = Result(sample, job, h)
    BY DEF Result, Reports, o
  <2>4. \A r \in Summary(reported) : r.host = AllClients
    BY DEF Summary
  <2>5. ASSUME NEW h \in reported PROVE \E x \in Grid : Result(sample, job, h) = Result(x[1], x[2], x[3])
    <3>1. <<sample, job, h>> \in Grid
      BY DEF AnalysisIInv, FioIInv, FioTypeOK, Grid
    <3>2. \E x \in Grid : x[1] = sample /\ x[2] = job /\ x[3] = h
      BY <3>1
    <3>. QED BY <3>2
  <2>6. \A x \in Grid : JobOver(x[1], x[2])' => JobOver(x[1], x[2])
    BY <1>1, <2>1 DEF JobOver
  <2>7. /\ \A s, j, h : Result(s, j, h)' = Result(s, j, h)
        /\ Grid' = Grid
    BY <1>1, ResultKept
  <2>8. ASSUME NEW r \in results'
        PROVE  r.host = AllClients \/ \E x \in Grid : r = Result(x[1], x[2], x[3])
    <3>1. CASE r \in results
      BY <3>1 DEF AnalysisIInv, ResultsWhole
    <3>2. CASE r \in Reports(reported)
      BY <2>3, <2>5, <3>2
    <3>. QED BY <2>1, <2>4, <3>1, <3>2
  <2>9. \A x \in Grid : JobOver(x[1], x[2])' => Result(x[1], x[2], x[3]) \in results'
    BY <2>1, <2>6 DEF AnalysisIInv, ResultsWhole
  <2>10. ASSUME NEW h \in reported PROVE Result(sample, job, h)' \in results'
    BY <1>1, <2>1, <2>2, <2>7
  <2>11. ResultsWhole'
    BY <1>1, <2>7, <2>8, <2>9, <2>10 DEF ResultsWhole
  <2>. QED BY <1>2, <2>11
<1>. QED BY <1>3, <1>4

LEMMA CollectLogsResults ==
  ASSUME AnalysisIInv, CollectLogs
  PROVE  ResultsWhole' /\ AnalysisWhole'
<1>1. /\ fioAt = "logs" /\ fio_starttime' = fio_starttime /\ jobs' = jobs /\ results' = results
      /\ sample' = sample /\ job' = job /\ analyzed' = analyzed
  BY DEF CollectLogs, GoOn, given
<1>2. AnalysisWhole'
  BY <1>1, AnalysisStays DEF AnalysisIInv
<1>3. /\ \A s, j, h : Result(s, j, h)' = Result(s, j, h)
      /\ Grid' = Grid
  BY <1>1, ResultKept
<1>4. CASE LogPayload.end # "none"
  <2>1. fioAt' \in {"exit", "raised"}
    BY <1>4, PayloadType DEF CollectLogs, GoOn, AnalysisIInv, FioIInv, Accumulators
  <2>2. \A x \in Grid : ~JobOver(x[1], x[2])'
    BY <2>1 DEF JobOver
  <2>. QED BY <1>1, <1>2, <2>1, <2>2, ResultsStay DEF AnalysisIInv
<1>5. CASE LogPayload.end = "none"
  <2>1. fioAt' = "trigger"
    BY <1>5 DEF CollectLogs
  <2>2. HostSet \subseteq fio_starttime
    BY <1>5, PayloadWhole DEF AnalysisIInv, FioIInv
  <2>3. ASSUME NEW x \in Grid, JobOver(x[1], x[2])' PROVE Result(x[1], x[2], x[3]) \in results
    <3>1. JobOver(x[1], x[2]) \/ (x[1] = sample /\ x[2] = job)
      BY <1>1, <2>1, <2>3 DEF JobOver
    <3>2. x[3] \in fio_starttime
      BY <2>2 DEF Grid
    <3>. QED BY <1>1, <3>1, <3>2 DEF AnalysisIInv, ResultsWhole
  <2>4. ResultsWhole'
    BY <1>1, <1>3, <2>1, <2>3 DEF AnalysisIInv, ResultsWhole
  <2>. QED BY <1>2, <2>4
<1>. QED BY <1>4, <1>5

LEMMA EndJobResults ==
  ASSUME AnalysisIInv, EndJob
  PROVE  ResultsWhole' /\ AnalysisWhole'
<1>1. /\ fioAt = "trigger" /\ jobs' = jobs /\ results' = results /\ analyzed' = analyzed
      /\ job' = IF job < NJobs THEN job + 1 ELSE 1
      /\ sample' = IF job < NJobs \/ sample = NSamples THEN sample ELSE sample + 1
      /\ fioAt' = IF job < NJobs THEN "fio" ELSE IF sample < NSamples THEN "sample" ELSE "analyze"
  BY DEF EndJob, given
<1>2. AnalysisWhole'
  BY <1>1, AnalysisStays DEF AnalysisIInv
<1>3. sample \in 1..NSamples /\ job \in 1..NJobs /\ NSamples \in Nat \ {0} /\ NJobs \in Nat \ {0}
  BY FioAssumption DEF AnalysisIInv, FioIInv, FioTypeOK
<1>4. ASSUME NEW x \in Grid, JobOver(x[1], x[2])' PROVE JobOver(x[1], x[2])
  <2>1. x[1] \in 1..NSamples /\ x[2] \in 1..NJobs
    BY DEF Grid
  <2>2. CASE job < NJobs
    BY <1>1, <1>3, <1>4, <2>1, <2>2 DEF JobOver
  <2>3. CASE ~(job < NJobs) /\ sample < NSamples
    BY <1>1, <1>3, <1>4, <2>1, <2>3 DEF JobOver
  <2>4. CASE ~(job < NJobs) /\ ~(sample < NSamples)
    BY <1>1, <1>3, <1>4, <2>1, <2>4 DEF JobOver
  <2>. QED BY <2>2, <2>3, <2>4
<1>5. ResultsWhole'
  BY <1>1, <1>4, ResultsStay DEF AnalysisIInv
<1>. QED BY <1>2, <1>5

LEMMA AnalyzeResults ==
  ASSUME AnalysisIInv, Analyze
  PROVE  ResultsWhole' /\ AnalysisWhole'
<1>1. fioAt = "analyze" /\ jobs' = jobs /\ results' = results /\ fioAt' \in {"raised", "done"}
  BY DEF Analyze, GoOn, given
<1>2. ResultsWhole'
  <2>1. \A x \in Grid : JobOver(x[1], x[2])
    BY <1>1 DEF JobOver
  <2>. QED BY <1>1, <2>1, ResultsStay DEF AnalysisIInv
<1>3. CASE analyzed' = analyzed
  BY <1>1, <1>2, <1>3, AnalysisStays DEF AnalysisIInv
<1>4. CASE analyzed' = Analyzed(results, global)
  <2>. DEFINE R == PerHost(results)
  <2>1. \A r \in R : \E x \in Grid : r = Result(x[1], x[2], x[3])
    BY DEF PerHost, AnalysisIInv, ResultsWhole
  <2>2. ASSUME NEW x \in Grid PROVE Result(x[1], x[2], x[3]) \in R
    <3>1. Result(x[1], x[2], x[3]) \in results
      BY <1>1 DEF AnalysisIInv, ResultsWhole, JobOver
    <3>2. x[3] # AllClients
      BY FioAssumption DEF Grid, HostSet
    <3>. QED BY <3>1, <3>2 DEF PerHost, Result
  <2>3. Complete(R)
    BY <2>1, <2>2 DEF Complete
  <2>4. \A a \in Analyzed(results, global) : AnalysisRight(a)
    BY <2>3, AnalyzedRight DEF AnalysisIInv, FioIInv
  <2>5. \A a \in analyzed' : AnalysisRight(a)'
    BY <1>1, <1>4, <2>4, ResultKept
  <2>6. AnalysisWhole' <=> (\A a \in analyzed : AnalysisRight(a))'
    BY AnalysisWholeIs, PTL
  <2>. QED BY <1>2, <2>5, <2>6
<1>. QED BY <1>3, <1>4 DEF Analyze, GoOn

LEMMA OtherFioStepsResults ==
  ASSUME AnalysisIInv,
         \/ \E answer \in {"SUCCESS", "error", "failed"} : DropOsdCaches(answer)
         \/ FioFails \/ RunAgain
  PROVE  ResultsWhole' /\ AnalysisWhole'
<1>1. CASE (\E answer \in {"SUCCESS", "error", "failed"} : DropOsdCaches(answer)) \/ FioFails
  <2>1. /\ fioAt \in {"sample", "fio"} /\ fioAt' \in {"fio", "exit", "raised"} /\ jobs' = jobs
        /\ results' = results /\ analyzed' = analyzed /\ sample' = sample /\ job' = job
    BY <1>1 DEF DropOsdCaches, FioFails, GoOn, given
  <2>2. \A x \in Grid : JobOver(x[1], x[2])' => JobOver(x[1], x[2])
    BY <2>1 DEF JobOver
  <2>. QED BY <2>1, <2>2, ResultsStay, AnalysisStays DEF AnalysisIInv
<1>2. CASE RunAgain
  <2>1. /\ fioAt' = "sample" /\ sample' = 1 /\ job' = 1 /\ jobs' = jobs /\ results' = {} /\ analyzed' = {}
    BY <1>2 DEF RunAgain
  <2>2. \A x \in Grid : ~JobOver(x[1], x[2])'
    BY <2>1 DEF JobOver, Grid
  <2>3. ResultsWhole'
    BY <2>1, <2>2, ResultKept DEF ResultsWhole
  <2>. QED BY <2>1, <2>3, AnalysisStays DEF AnalysisIInv
<1>. QED BY <1>1, <1>2

LEMMA AnalysisIInvInit == Init => AnalysisIInv
<1>. SUFFICES ASSUME Init PROVE ResultsWhole /\ AnalysisWhole
  BY FioIInvInit DEF AnalysisIInv
<1>1. results = {} /\ analyzed = {} /\ fioAt = "sample" /\ sample = 1 /\ job = 1
  BY DEF Init, FioInit
<1>2. \A x \in Grid : ~JobOver(x[1], x[2])
  BY <1>1 DEF JobOver, Grid
<1>. QED BY <1>1, <1>2 DEF ResultsWhole, AnalysisWhole

LEMMA AnalysisIInvStep == AnalysisIInv /\ [Next]_vars => AnalysisIInv'
<1>. SUFFICES ASSUME AnalysisIInv, [Next]_vars PROVE ResultsWhole' /\ AnalysisWhole'
  BY FioIInvStep DEF AnalysisIInv
<1>1. CASE FioNext
  BY <1>1, FioEndsWellResults, CollectLogsResults, EndJobResults, AnalyzeResults, OtherFioStepsResults
  DEF FioNext
<1>2. CASE UNCHANGED fioVars
  <2>1. /\ fioAt' = fioAt /\ sample' = sample /\ job' = job /\ jobs' = jobs /\ results' = results
        /\ analyzed' = analyzed /\ fio_starttime' = fio_starttime
    BY <1>2 DEF fioVars
  <2>2. AnalysisWhole'
    BY <2>1, AnalysisStays DEF AnalysisIInv
  <2>3. /\ \A s, j, h : Result(s, j, h)' = Result(s, j, h)
        /\ Grid' = Grid
    BY <2>1, ResultKept
  <2>4. \A x \in Grid : JobOver(x[1], x[2])' => JobOver(x[1], x[2])
    BY <2>1 DEF JobOver
  <2>5. ResultsWhole'
    BY <2>1, <2>3, <2>4 DEF AnalysisIInv, ResultsWhole
  <2>. QED BY <2>2, <2>5
<1>. QED BY <1>1, <1>2 DEF Next, vars, fioBoth, otherVars, Fio, Histogram, Drift, Blame, Matrix

\* The analyzer comes to its averages only when they are of all samples and hosts, each
\* counted once (fio_analyzer.calculate_iops): a job that is not whole ends the run before.
THEOREM AveragesOfAllJobs == Spec => []AnalysisWhole
<1>1. AnalysisIInv => AnalysisWhole
  BY DEF AnalysisIInv
<1>. QED BY <1>1, AnalysisIInvInit, AnalysisIInvStep, PTL DEF Spec
-----------------------------------------------------------------------------
(* The intervals of the histogram logs                                     *)

HistLine == [time : Nat, direction : {0, 1}, wellFormed : BOOLEAN]

\* The times of a direction never decrease.
TimesGrow(recs) ==
  \A i, k \in 1..Len(recs) :
    i <= k /\ recs[i].direction = recs[k].direction => recs[i].time <= recs[k].time

\* The accumulators of the parsing: no record is later than the last time of its direction.
ParseAccs ==
  {a \in [bad : BOOLEAN, previous : [{0, 1} -> Int], intervals : Seq(HistLine)] :
     /\ TimesGrow(a.intervals)
     /\ \A i \in 1..Len(a.intervals) : a.intervals[i].time <= a.previous[a.intervals[i].direction]}

LEMMA ParseLineType ==
  ASSUME NEW a \in ParseAccs, NEW entry \in HistLine
  PROVE  ParseLine(a, entry) \in ParseAccs
<1>. DEFINE previous == [a.previous EXCEPT ![entry.direction] = entry.time]
            longer   == Append(a.intervals, entry)
            intervals == IF a.intervals # <<>> /\ Last(a.intervals) = entry THEN a.intervals ELSE longer
<1>1. /\ a = [bad |-> a.bad, previous |-> a.previous, intervals |-> a.intervals]
      /\ a.bad \in BOOLEAN /\ a.previous \in [{0, 1} -> Int] /\ a.intervals \in Seq(HistLine)
      /\ TimesGrow(a.intervals)
      /\ \A i \in 1..Len(a.intervals) : a.intervals[i].time <= a.previous[a.intervals[i].direction]
  BY DEF ParseAccs
<1>2. entry.time \in Nat /\ entry.direction \in {0, 1} /\ \A l \in HistLine : l.time \in Nat /\ l.direction \in {0, 1}
  BY DEF HistLine
<1>3. CASE a.bad \/ ~entry.wellFormed \/ entry.time < a.previous[entry.direction]
  <2>1. ParseLine(a, entry) = [bad |-> TRUE, previous |-> a.previous, intervals |-> a.intervals]
    <3>1. ParseLine(a, entry) = [a EXCEPT !.bad = TRUE]
      BY <1>3 DEF ParseLine
    <3>. QED BY <1>1, <3>1
  <2>. QED BY <1>1, <2>1 DEF ParseAccs
<1>4. CASE ~(a.bad \/ ~entry.wellFormed \/ entry.time < a.previous[entry.direction])
  <2>1. ParseLine(a, entry) = [bad |-> a.bad, previous |-> previous, intervals |-> intervals]
    <3>1. ParseLine(a, entry) =
            [a EXCEPT !.previous[entry.direction] = entry.time,
                      !.intervals = IF @ # <<>> /\ Last(@) = entry THEN @ ELSE Append(@, entry)]
      BY <1>4 DEF ParseLine
    <3>2. PICK next : next = [a EXCEPT !.previous[entry.direction] = entry.time,
                      !.intervals = IF @ # <<>> /\ Last(@) = entry THEN @ ELSE Append(@, entry)]
      OBVIOUS
    <3>3. next = [bad |-> a.bad, previous |-> previous, intervals |-> intervals]
      BY <1>1, <3>2
    <3>. QED BY <3>1, <3>2, <3>3
  <2>2. previous \in [{0, 1} -> Int]
    BY <1>1, <1>2
  <2>3. /\ previous[entry.direction] = entry.time
        /\ \A d \in {0, 1} : a.previous[d] <= previous[d]
    BY <1>1, <1>2, <1>4
  <2>. HIDE DEF previous
  <2>4. /\ a.intervals \in Seq(HistLine) /\ TimesGrow(a.intervals)
        /\ \A i \in 1..Len(a.intervals) : a.intervals[i].time <= previous[a.intervals[i].direction]
    BY <1>1, <1>2, <2>2, <2>3
  <2>5. /\ longer \in Seq(HistLine) /\ Len(longer) = Len(a.intervals) + 1
        /\ longer[Len(longer)] = entry
        /\ \A i \in 1..Len(longer) : i # Len(longer) => i \in 1..Len(a.intervals) /\ longer[i] = a.intervals[i]
    BY <1>1
  <2>. HIDE DEF longer
  <2>6. \A i \in 1..Len(longer) : longer[i].time <= previous[longer[i].direction]
    BY <1>2, <2>3, <2>4, <2>5
  <2>7. TimesGrow(longer)
    <3>. SUFFICES ASSUME NEW i \in 1..Len(longer), NEW k \in 1..Len(longer), i <= k,
                         longer[i].direction = longer[k].direction
                  PROVE  longer[i].time <= longer[k].time
      BY DEF TimesGrow
    <3>1. CASE k # Len(longer)
      <4>1. i # Len(longer)
        BY <2>5, <3>1
      <4>. QED BY <2>4, <2>5, <3>1, <4>1 DEF TimesGrow
    <3>2. CASE k = Len(longer)
      BY <2>3, <2>5, <2>6, <3>2
    <3>. QED BY <3>1, <3>2
  <2>8. /\ intervals \in Seq(HistLine) /\ TimesGrow(intervals)
        /\ \A i \in 1..Len(intervals) : intervals[i].time <= previous[intervals[i].direction]
    BY <2>4, <2>5, <2>6, <2>7
  <2>. HIDE DEF intervals
  <2>. QED BY <1>1, <2>1, <2>2, <2>8 DEF ParseAccs
<1>. QED BY <1>3, <1>4

\* What is parsed of a file grows in each direction.
LEMMA ParsedGrows ==
  ASSUME NEW seq \in Seq(HistLine)
  PROVE  Parsed(seq) \in ParseAccs
<1>. DEFINE n == Len(seq)
            S == 1..n
            V == ParseAccs
            base == [bad |-> FALSE, previous |-> [d \in {0, 1} |-> -1], intervals |-> <<>>]
            c == [s \in SUBSET S |-> Max(s)]
            step == [x \in S \X V |-> ParseLine(x[2], seq[x[1]])]
            Body(it) == [s \in SUBSET S |-> IF s = {} THEN base
                           ELSE ParseLine(it[s \ {Max(s)}], seq[Max(s)])]
            iter == CHOOSE it : it = Body(it)
<1>1. n \in Nat /\ DOMAIN seq = S /\ \A i \in S : seq[i] \in HistLine
  OBVIOUS
<1>2. IsFiniteSet(S)
  BY <1>1, FS_Interval
<1>3. Takes(c, S)
  BY <1>1, Greatest DEF Takes
<1>4. step \in [S \X V -> V]
  BY <1>1, ParseLineType
<1>5. base \in V
  BY DEF ParseAccs, TimesGrow
<1>6. PICK it \in [SUBSET S -> V] : Iter(it, S, base, c, step)
  <2>. HIDE DEF c, step, S, V, base
  <2>. QED BY <1>2, <1>3, <1>4, <1>5, IterExists
<1>7. it = Body(it)
  <2>1. ASSUME NEW s \in SUBSET S, s # {}
        PROVE  step[<<c[s], it[s \ {c[s]}]>>] = ParseLine(it[s \ {Max(s)}], seq[Max(s)])
    <3>1. c[s] = Max(s) /\ Max(s) \in S
      BY <2>1, <1>3 DEF Takes
    <3>. DEFINE m == Max(s)
                v == it[s \ {m}]
    <3>2. m \in S /\ v \in V
      BY <3>1
    <3>3. step[<<m, v>>] = ParseLine(v, seq[m])
      <4>. HIDE DEF m, v, V, S
      <4>. QED BY <3>2
    <3>. HIDE DEF c, step
    <3>. QED BY <3>1, <3>3
  <2>2. it = [s \in SUBSET S |-> IF s = {} THEN base ELSE step[<<c[s], it[s \ {c[s]}]>>]]
    <3>. HIDE DEF c, step, base
    <3>. QED BY <1>6 DEF Iter
  <2>. HIDE DEF c, step, S, base
  <2>. QED BY <2>1, <2>2
<1>8. iter = Body(iter)
  <2>. HIDE DEF Body
  <2>. QED BY <1>7
<1>9. Parsed(seq) = iter[S]
  BY <1>1 DEF Parsed, FoldLeft, MapThenFoldSet
<1>10. iter[{}] = base
  <2>1. {} \in SUBSET S
    OBVIOUS
  <2>. HIDE DEF base
  <2>2. Body(iter)[{}] = base
    BY <2>1
  <2>. HIDE DEF Body, iter
  <2>. QED BY <1>8, <2>2
<1>11. Folds(iter, n, base, step, V)
  <2>. HIDE DEF base
  <2>. SUFFICES ASSUME NEW s \in SUBSET S, s # {}, iter[s \ {Max(s)}] \in V
                PROVE  iter[s] = step[<<Max(s), iter[s \ {Max(s)}]>>]
    BY <1>1, <1>4, <1>5, <1>10 DEF Folds
  <2>1. Body(iter)[s] = ParseLine(iter[s \ {Max(s)}], seq[Max(s)])
    <3>. HIDE DEF iter
    <3>. QED OBVIOUS
  <2>2. Max(s) \in S
    BY <1>3 DEF Takes
  <2>. DEFINE m == Max(s)
              v == iter[s \ {m}]
  <2>3. m \in S /\ v \in V
    BY <2>2
  <2>. HIDE DEF m, v, V, S, iter, Body
  <2>4. step[<<m, v>>] = ParseLine(v, seq[m])
    BY <2>3
  <2>5. iter[s] = ParseLine(v, seq[m])
    BY <1>8, <2>1 DEF m, v
  <2>. QED BY <2>4, <2>5 DEF m, v
<1>12. PICK acc : Come(acc, n, base, step, V) /\ acc[n] = iter[1..n]
  <2>. HIDE DEF iter, step, V, n, S, base
  <2>. QED BY ONLY <1>11, FoldSteps
<1>13. acc[n] \in V
  BY <1>1, <1>12 DEF Come
<1>. HIDE DEF iter, V
<1>14. Parsed(seq) \in V
  BY <1>9, <1>12, <1>13
<1>. QED BY <1>14 DEF V

\* A value of MaxOf and MinOf is found by its property.
LEMMA MinIs ==
  ASSUME NEW f, NEW x \in Range(f), Range(f) \subseteq Int, \A y \in Range(f) : x <= y
  PROVE  MinOf(f) = x
<1>. DEFINE Least(y) == y \in Range(f) /\ \A z \in Range(f) : y <= z
<1>1. Least(x) /\ \A y : Least(y) => y = x
  OBVIOUS
<1>2. MinOf(f) = CHOOSE y \in Range(f) : \A z \in Range(f) : y <= z
  BY DEF MinOf
<1>. QED BY <1>1, <1>2

LEMMA MaxIs ==
  ASSUME NEW f, NEW x \in Range(f), Range(f) \subseteq Int, \A y \in Range(f) : y <= x
  PROVE  MaxOf(f) = x
<1>1. MaxOf(f) = CHOOSE y \in Range(f) : \A z \in Range(f) : z <= y
  BY DEF MaxOf
<1>. QED BY <1>1

LEMMA ThreeTimes ==
  ASSUME NEW s \in Seq(Int), Len(s) = 3
  PROVE  DOMAIN s = 1..3 /\ \A i \in 1..3 : s[i] \in Int
<1>1. DOMAIN s = 1..Len(s) /\ \A i \in 1..Len(s) : s[i] \in Int
  BY LenProperties, ElementOfSeq, Zenon
<1>2. 1..Len(s) = 1..3
  OBVIOUS
<1>. QED BY <1>1, <1>2, Zenon

\* The least and the greatest of two times, and 0.
LEMMA OfTwo ==
  ASSUME NEW s \in Seq(Int), Len(s) = 2
  PROVE  MinOf(s) \in Int /\ MaxOf(<<0>> \o s) \in Int
<1>1. DOMAIN s = {1, 2} /\ s[1] \in Int /\ s[2] \in Int
  <2>1. DOMAIN s = 1..2 /\ \A i \in 1..2 : s[i] \in Int
    OBVIOUS
  <2>2. 1..2 = {1, 2}
    OBVIOUS
  <2>. QED BY <2>1, <2>2
<1>2. PICK e \in {s[1], s[2]} : \A y \in {s[1], s[2]} : e <= y
  <2>1. CASE s[1] <= s[2]
    BY <1>1, <2>1
  <2>2. CASE s[2] <= s[1]
    BY <1>1, <2>2
  <2>. QED BY <1>1, <2>1, <2>2
<1>3. Range(s) = {s[1], s[2]}
  BY <1>1 DEF Range
<1>4. MinOf(s) \in Int
  BY <1>1, <1>2, <1>3, MinIs
<1>. DEFINE x == <<0>> \o s
<1>5. x \in Seq(Int) /\ Len(x) = 3
  <2>. DEFINE z == <<0>>
  <2>1. z \in Seq(Int) /\ Len(z) = 1
    OBVIOUS
  <2>. HIDE DEF z
  <2>2. z \o s \in Seq(Int) /\ Len(z \o s) = Len(z) + Len(s)
    BY <2>1, ConcatProperties
  <2>. QED BY <2>1, <2>2 DEF z
<1>6. PICK seq \in Seq(Int) : seq = x /\ Len(seq) = 3
  BY <1>5
<1>. HIDE DEF x
<1>7. DOMAIN seq = 1..3 /\ \A i \in 1..3 : seq[i] \in Int
  BY <1>6, ThreeTimes
<1>8. 1..3 = {1, 2, 3}
  OBVIOUS
<1>9. DOMAIN seq = {1, 2, 3} /\ seq[1] \in Int /\ seq[2] \in Int /\ seq[3] \in Int
  BY <1>7, <1>8
<1>10. PICK m \in {seq[1], seq[2], seq[3]} : \A y \in {seq[1], seq[2], seq[3]} : y <= m
  <2>1. CASE seq[1] >= seq[2] /\ seq[1] >= seq[3]
    BY <1>9, <2>1
  <2>2. CASE seq[2] >= seq[1] /\ seq[2] >= seq[3]
    BY <1>9, <2>2
  <2>3. CASE seq[3] >= seq[1] /\ seq[3] >= seq[2]
    BY <1>9, <2>3
  <2>. QED BY <1>9, <2>1, <2>2, <2>3
<1>11. Range(seq) = {seq[1], seq[2], seq[3]}
  BY <1>9 DEF Range
<1>12. MaxOf(seq) \in Int
  <2>1. m \in Range(seq) /\ Range(seq) \subseteq Int /\ m \in Int
    BY <1>9, <1>10, <1>11
  <2>2. \A y \in Range(seq) : y <= m
    BY <1>10, <1>11
  <2>3. MaxOf(seq) = m
    BY <2>1, <2>2, MaxIs
  <2>. QED BY <2>1, <2>3
<1>. QED BY <1>4, <1>6, <1>12 DEF x

\* The interval in which all of two logs have records.
LEMMA TimesOfTwo ==
  ASSUME starts \in Seq(Int), Len(starts) = 2, ends \in Seq(Int), Len(ends) = 2,
         time_quantum \in Quanta
  PROVE  /\ min_timestamp_ms \in Int
         /\ time_qtm_ms \in Nat \ {0} /\ time_interval_count \in Int /\ end_time_ms \in Int
<1>1. min_timestamp_ms \in Int
  BY OfTwo DEF min_timestamp_ms, TestStart
<1>2. max_timestamp_ms \in Int
  BY OfTwo DEF max_timestamp_ms
<1>3. time_quantum \in Nat \ {0} /\ MsPerSec \in Nat \ {0}
  BY HistAssumption
<1>4. time_qtm_ms \in Nat \ {0}
  BY <1>3 DEF time_qtm_ms
<1>. DEFINE from == min_timestamp_ms \div MsPerSec
            to   == max_timestamp_ms \div MsPerSec
<1>5. from \in Int /\ to \in Int
  BY <1>1, <1>2, <1>3
<1>6. time_interval_count = ((to - from) + time_quantum) \div time_quantum
  BY DEF time_interval_count
<1>7. end_time_ms = (from + time_interval_count * time_quantum) * MsPerSec
  BY DEF end_time_ms
<1>. HIDE DEF from, to
<1>8. time_interval_count \in Int
  <2>1. (to - from) + time_quantum \in Int
    BY <1>3, <1>5
  <2>. QED BY <1>3, <1>6, <2>1
<1>9. end_time_ms \in Int
  <2>1. time_interval_count * time_quantum \in Int
    BY <1>3, <1>8
  <2>2. from + time_interval_count * time_quantum \in Int
    BY <1>5, <2>1
  <2>. QED BY <1>3, <1>7, <2>2
<1>. QED BY <1>1, <1>4, <1>8, <1>9

\* The next record of the direction, sought among three, is where the record ends.
LEMMA RecordEndIsUntil ==
  ASSUME NEW f, hist[f] \in Seq(HistLine), TimesGrow(hist[f]), NEW k \in 1..Len(hist[f]),
         ~AssertionFails(hist[f], k), end_time_ms \in Int
  PROVE  RecordEnd(hist[f], k) = Until(f, k) /\ Until(f, k) \in Int
<1>. DEFINE recs  == hist[f]
            same  == {i \in {k + 1, k + 2, k + 3} \cap DOMAIN recs : recs[i].direction = recs[k].direction}
            later == {i \in (k + 1)..Len(recs) : recs[i].direction = recs[k].direction}
            itself == [i \in same |-> i]
            times == [i \in later |-> recs[i].time]
<1>1. /\ Len(recs) \in Nat /\ k \in Nat \ {0} /\ DOMAIN recs = 1..Len(recs)
      /\ \A i \in 1..Len(recs) : recs[i].time \in Nat
  <2>1. \A l \in HistLine : l.time \in Nat
    BY DEF HistLine
  <2>. DEFINE seq == recs
  <2>2. seq \in Seq(HistLine) /\ k \in 1..Len(seq)
    OBVIOUS
  <2>. HIDE DEF seq
  <2>3. Len(seq) \in Nat /\ k \in Nat \ {0} /\ DOMAIN seq = 1..Len(seq) /\ \A i \in 1..Len(seq) : seq[i] \in HistLine
    BY <2>2
  <2>4. \A i \in 1..Len(seq) : seq[i].time \in Nat
    BY <2>1, <2>3
  <2>. QED BY <2>3, <2>4 DEF seq
<1>2. same \subseteq later /\ \A i \in later : i \in 1..Len(recs) /\ k < i
  BY <1>1
<1>3. NextRecord(recs, k) = IF same = {} THEN 0 ELSE MinOf(itself)
  BY DEF NextRecord
<1>4. Until(f, k) = IF later = {} THEN end_time_ms ELSE MinOf(times)
  BY DEF Until
<1>5. CASE same = {}
  <2>1. NextRecord(recs, k) = 0
    BY <1>3, <1>5
  <2>2. k + 3 > Len(recs)
    BY <1>1, <2>1 DEF AssertionFails
  <2>3. later = {}
    BY <1>1, <1>5, <2>2
  <2>. QED BY <1>4, <2>1, <2>3 DEF RecordEnd
<1>6. CASE same # {}
  <2>1. PICK p \in same : \A i \in same : p <= i
    <3>1. k \in Nat /\ same \subseteq {k + 1, k + 2, k + 3} /\ same # {}
      BY <1>1, <1>6
    <3>. HIDE DEF same
    <3>2. CASE k + 1 \in same
      BY <3>1, <3>2
    <3>3. CASE k + 1 \notin same /\ k + 2 \in same
      BY <3>1, <3>3
    <3>4. CASE k + 1 \notin same /\ k + 2 \notin same
      <4>1. same = {k + 3}
        BY <3>1, <3>4
      <4>. QED BY <3>1, <4>1
    <3>. QED BY <3>2, <3>3, <3>4
  <2>2. \A i \in later : p <= i
    BY <1>1, <2>1
  <2>3. Range(itself) = same
    BY DEF Range
  <2>4. NextRecord(recs, k) = p /\ p # 0
    <3>1. MinOf(itself) = p
      <4>. HIDE DEF itself
      <4>1. same \subseteq Int
        BY <1>1
      <4>. QED BY <2>1, <2>3, <4>1, MinIs
    <3>. QED BY <1>1, <1>3, <1>6, <3>1
  <2>5. RecordEnd(recs, k) = recs[p].time
    BY <2>4 DEF RecordEnd
  <2>6. \A i \in later : recs[p].time <= recs[i].time
    BY <1>2, <2>1, <2>2 DEF TimesGrow
  <2>7. MinOf(times) = recs[p].time
    <3>1. recs[p].time \in Range(times)
      BY <1>2, <2>1 DEF Range
    <3>2. ASSUME NEW y \in Range(times) PROVE y \in Int /\ recs[p].time <= y
      <4>1. PICK i \in later : y = recs[i].time
        BY DEF Range
      <4>. QED BY <1>1, <1>2, <2>6, <4>1
    <3>. HIDE DEF times
    <3>. QED BY <3>1, <3>2, MinIs
  <2>8. later # {}
    BY <1>2, <1>6
  <2>. QED BY <1>1, <1>2, <1>4, <2>1, <2>5, <2>7, <2>8
<1>. QED BY <1>5, <1>6

\* The milliseconds from time to end that interval j has.
Within(time, end, j) ==
  {ms \in time..(end - 1) : QuantumStart(j) <= ms /\ ms < QuantumStart(j + 1)}

\* The intervals that the inner loop goes through are those a record has milliseconds in,
\* and the overlap it computes is the number of them.
LEMMA OverlapExact ==
  ASSUME min_timestamp_ms \in Int, time_qtm_ms \in Nat \ {0}, time_interval_count \in Int,
         NEW time \in Int, NEW end \in Int, min_timestamp_ms <= time, time < end
  PROVE  /\ \A q \in QuantaOf(time, end) : q \in 0..(time_interval_count - 1)
         /\ \A j \in 0..(time_interval_count - 1) :
              /\ j \in QuantaOf(time, end) <=> Cardinality(Within(time, end, j)) # 0
              /\ j \in QuantaOf(time, end) =>
                   Cardinality(Within(time, end, j))
                     = Lesser(QuantumStart(j + 1), end) - Greater(QuantumStart(j), time)
<1>. DEFINE m == min_timestamp_ms
            Q == time_qtm_ms
            first == (time - m) \div Q
<1>1. first \in Nat /\ first * Q <= time - m /\ time - m < (first + 1) * Q
  <2>. DEFINE t == time - m
  <2>1. t \in Nat /\ Q \in Nat \ {0}
    OBVIOUS
  <2>. HIDE DEF t, Q
  <2>2. t \div Q \in Nat /\ (t \div Q) * Q <= t /\ t < ((t \div Q) + 1) * Q
    BY <2>1
  <2>. QED BY <2>2 DEF t
<1>2. QuantaOf(time, end) = {q \in first..(time_interval_count - 1) : QuantumStart(q) < end}
  BY DEF QuantaOf
<1>. HIDE DEF first
<1>3. \A q \in QuantaOf(time, end) : q \in 0..(time_interval_count - 1)
  BY <1>1, <1>2
<1>4. ASSUME NEW j \in 0..(time_interval_count - 1)
      PROVE  /\ j \in QuantaOf(time, end) <=> Cardinality(Within(time, end, j)) # 0
             /\ j \in QuantaOf(time, end) =>
                  Cardinality(Within(time, end, j))
                    = Lesser(QuantumStart(j + 1), end) - Greater(QuantumStart(j), time)
  <2>. DEFINE from == QuantumStart(j)
              to   == QuantumStart(j + 1)
              lo   == Greater(from, time)
              hi   == Lesser(to, end)
  <2>1. j \in Nat /\ from = m + j * Q /\ to = m + (j + 1) * Q /\ j * Q \in Int /\ (j + 1) * Q = j * Q + Q
    BY DEF QuantumStart
  <2>2. from \in Int /\ to \in Int /\ from < to
    BY <2>1
  <2>3. j >= first <=> to > time
    <3>1. ASSUME j >= first PROVE (j + 1) * Q >= (first + 1) * Q
      BY <1>1, <2>1, <3>1
    <3>2. ASSUME j < first PROVE (j + 1) * Q <= first * Q
      <4>1. j + 1 <= first /\ j + 1 \in Nat
        BY <1>1, <2>1, <3>2
      <4>. QED BY <1>1, <4>1
    <3>. DEFINE a == (j + 1) * Q
                b == first * Q
                c == (first + 1) * Q
    <3>3. a \in Int /\ b \in Int /\ c \in Int
      BY <1>1, <2>1
    <3>4. to = m + a /\ b <= time - m /\ time - m < c /\ (j >= first => a >= c) /\ (j < first => a <= b)
      BY <1>1, <2>1, <3>1, <3>2
    <3>. HIDE DEF a, b, c, to
    <3>. QED BY <1>1, <2>1, <3>3, <3>4
  <2>. HIDE DEF from, to
  <2>4. j \in QuantaOf(time, end) <=> to > time /\ from < end
    BY <1>1, <1>2, <2>1, <2>3 DEF from
  <2>5. /\ lo \in Int /\ hi \in Int
        /\ \A x \in Int : x >= lo <=> x >= from /\ x >= time
        /\ \A x \in Int : x < hi <=> x < to /\ x < end
        /\ lo < hi <=> to > time /\ from < end
    BY <2>2 DEF Greater, Lesser
  <2>. HIDE DEF lo, hi
  <2>6. Within(time, end, j) = lo..(hi - 1)
    <3>1. Within(time, end, j) = {ms \in time..(end - 1) : from <= ms /\ ms < to}
      BY DEF Within, from, to
    <3>2. \A x : x \in {ms \in time..(end - 1) : from <= ms /\ ms < to} <=> x \in lo..(hi - 1)
      BY <2>2, <2>5
    <3>. QED BY <3>1, <3>2
  <2>7. Cardinality(lo..(hi - 1)) = IF lo > hi - 1 THEN 0 ELSE (hi - 1) - lo + 1
    BY <2>5, FS_Interval
  <2>. QED BY <2>4, <2>5, <2>6, <2>7 DEF lo, hi, from, to
<1>. QED BY <1>3, <1>4

\* The files parsed and their times, and where the loops are.
HistTypeOK ==
  /\ logs \in LogPairs /\ time_quantum \in Quanta /\ log_hist_msec \in HistMsecs
  /\ hist \in Seq(Seq(HistLine)) /\ starts \in Seq(Int) /\ ends \in Seq(Int)
  /\ Len(starts) = Len(hist) /\ Len(ends) = Len(hist)
  /\ \A f \in 1..Len(hist) : hist[f] # <<>> /\ TimesGrow(hist[f])
  /\ thread \in 1..2
  /\ histAt = "parse" => Len(hist) = thread - 1 /\ record = 1 /\ shares = {}
  /\ histAt \in {"align", "report"} => Len(hist) = 2
  /\ histAt = "align" => record \in 1..Len(hist[thread])

HistIInv ==
  /\ HistTypeOK
  /\ histAt = "align" =>
       \A s \in shares : s.thread \in Nat /\ s.record \in Nat /\ Aligned(s.thread, s.record)
  /\ SplitExactly

LEMMA TwoLogs ==
  ASSUME logs \in LogPairs
  PROVE  Len(logs) = 2 /\ \A f \in 1..2 : logs[f] \in Seq(HistLine)
<1>1. logs \in [1..2 -> Seq(HistLine)]
  BY HistAssumption DEF HistLine
<1>2. logs \in Seq(Seq(HistLine))
  <2>1. 2 \in Nat
    OBVIOUS
  <2>. DEFINE T == Seq(HistLine)
  <2>2. [1..2 -> T] \in {[1..n -> T] : n \in Nat}
    BY <2>1, Zenon
  <2>3. Seq(T) = UNION {[1..n -> T] : n \in Nat}
    BY SeqDef
  <2>4. logs \in [1..2 -> T]
    BY <1>1
  <2>. HIDE DEF T
  <2>5. logs \in Seq(T)
    BY <2>2, <2>3, <2>4, Zenon
  <2>. QED BY <2>5 DEF T
<1>3. DOMAIN logs = 1..2 /\ DOMAIN logs = 1..Len(logs) /\ Len(logs) \in Nat
  BY <1>1, <1>2, LenProperties
<1>4. Len(logs) = 2
  BY <1>3
<1>. QED BY <1>1, <1>4

LEMMA ParseLogKeeps ==
  ASSUME HistIInv, ParseLog
  PROVE  HistIInv'
<1>. DEFINE p == Parsed(logs[thread])
            recs == p.intervals
<1>1. /\ histAt = "parse" /\ Len(hist) = thread - 1 /\ record = 1 /\ shares = {} /\ thread \in 1..2
      /\ hist \in Seq(Seq(HistLine)) /\ starts \in Seq(Int) /\ ends \in Seq(Int)
      /\ Len(starts) = Len(hist) /\ Len(ends) = Len(hist)
  BY DEF HistIInv, HistTypeOK, ParseLog
<1>2. /\ logs' = logs /\ time_quantum' = time_quantum /\ log_hist_msec' = log_hist_msec
      /\ record' = record /\ shares' = shares
  BY DEF ParseLog, arguments
<1>3. CASE ParseFails(p)
  <2>1. histAt' = "aborted" /\ thread' = thread /\ hist' = hist /\ starts' = starts /\ ends' = ends
    BY <1>3 DEF ParseLog
  <2>. QED BY <1>2, <2>1 DEF HistIInv, HistTypeOK, SplitExactly, TimesGrow
<1>4. CASE ~ParseFails(p)
  <2>1. Len(logs) = 2 /\ logs[thread] \in Seq(HistLine)
    BY <1>1, TwoLogs DEF HistIInv, HistTypeOK
  <2>2. p \in ParseAccs
    BY <2>1, ParsedGrows
  <2>3. recs \in Seq(HistLine) /\ TimesGrow(recs) /\ recs # <<>>
    BY <1>4, <2>2 DEF ParseAccs, ParseFails
  <2>4. /\ hist' = Append(hist, recs) /\ starts' = Append(starts, StartTime(recs))
        /\ ends' = Append(ends, Last(recs).time)
        /\ thread' = IF thread < 2 THEN thread + 1 ELSE 1
        /\ histAt' = IF thread < 2 THEN "parse" ELSE IF TestStart(starts') >= MinOf(ends') THEN "raised" ELSE "align"
    BY <1>4, <2>1 DEF ParseLog
  <2>. HIDE DEF p, recs
  <2>5. \A l \in HistLine : l.time \in Nat
    BY DEF HistLine
  <2>6. /\ Len(recs) \in Nat \ {0} /\ \A i \in 1..Len(recs) : recs[i].time \in Nat
    <3>1. Len(recs) \in Nat /\ Len(recs) # 0 /\ \A i \in 1..Len(recs) : recs[i] \in HistLine
      BY <2>3, LenProperties, ElementOfSeq, EmptySeq
    <3>. QED BY <2>5, <3>1
  <2>7. StartTime(recs) \in Int
    <3>1. recs[1].time \in Nat /\ (Len(recs) > 1 => recs[2].time \in Nat)
      BY <2>6
    <3>2. log_hist_msec \in Nat
      BY HistAssumption DEF HistIInv, HistTypeOK
    <3>. QED BY <3>1, <3>2 DEF StartTime, NoStart
  <2>8. Last(recs).time \in Int
    BY <2>6 DEF Last
  <2>9. /\ hist' \in Seq(Seq(HistLine)) /\ Len(hist') = Len(hist) + 1 /\ hist'[Len(hist) + 1] = recs
        /\ \A f \in 1..Len(hist) : hist'[f] = hist[f]
    <3>. DEFINE T == Seq(HistLine)
    <3>1. hist \in Seq(T) /\ recs \in T
      BY <1>1, <2>3
    <3>. HIDE DEF T
    <3>2. /\ Append(hist, recs) \in Seq(T) /\ Len(Append(hist, recs)) = Len(hist) + 1
          /\ \A f \in 1..Len(hist) : Append(hist, recs)[f] = hist[f]
          /\ Append(hist, recs)[Len(hist) + 1] = recs
      BY <3>1, AppendProperties
    <3>. QED BY <2>4, <3>2 DEF T
  <2>10. /\ starts' \in Seq(Int) /\ Len(starts') = Len(hist) + 1
         /\ ends' \in Seq(Int) /\ Len(ends') = Len(hist) + 1
    BY <1>1, <2>4, <2>7, <2>8, AppendProperties
  <2>11. ASSUME NEW f \in 1..Len(hist') PROVE hist'[f] # <<>> /\ TimesGrow(hist'[f])
    <3>1. CASE f \in 1..Len(hist)
      BY <2>9, <3>1 DEF HistIInv, HistTypeOK
    <3>2. CASE f \notin 1..Len(hist)
      <4>1. f = Len(hist) + 1
        BY <1>1, <2>9, <3>2
      <4>. QED BY <2>3, <2>9, <4>1
    <3>. QED BY <3>1, <3>2
  <2>12. \A f \in 1..Len(hist') : (hist[f] # <<>> /\ TimesGrow(hist[f]))'
    BY <2>11 DEF TimesGrow
  <2>13. \A f \in {1, 2} : f \in 1..Len(hist') => Len(hist'[f]) \in Nat \ {0}
    <3>1. ASSUME NEW f \in 1..Len(hist') PROVE Len(hist'[f]) \in Nat \ {0}
      <4>. DEFINE T == Seq(HistLine)
      <4>1. hist'[f] \in T
        <5>1. hist' \in Seq(T)
          BY <2>9
        <5>. HIDE DEF T
        <5>. QED BY <5>1, ElementOfSeq
      <4>. QED BY <2>11, <4>1, LenProperties, EmptySeq
    <3>. QED BY <3>1
  <2>14. thread' \in 1..2 /\ (thread < 2 => thread' = 2 /\ Len(hist') = 1) /\ (~(thread < 2) => thread' = 1 /\ Len(hist') = 2)
    BY <1>1, <2>4, <2>9
  <2>15. HistTypeOK'
    <3>1. CASE thread < 2
      BY <1>1, <1>2, <2>4, <2>9, <2>10, <2>12, <2>14, <3>1 DEF HistIInv, HistTypeOK
    <3>2. CASE ~(thread < 2)
      <4>1. histAt' \in {"raised", "align"} /\ thread' = 1 /\ Len(hist') = 2
        BY <2>4, <2>14, <3>2
      <4>2. record' \in 1..Len(hist'[1])
        BY <1>1, <1>2, <2>13, <4>1
      <4>. QED BY <1>1, <1>2, <2>4, <2>9, <2>10, <2>12, <4>1, <4>2 DEF HistIInv, HistTypeOK
    <3>. QED BY <3>1, <3>2
  <2>16. histAt' = "align" => \A f \in 1..Len(hist') : \A k \in 1..Len(hist'[f]) : ~Aligned(f, k)'
    <3>. SUFFICES ASSUME histAt' = "align", NEW f \in 1..Len(hist'), NEW k \in 1..Len(hist'[f])
                  PROVE  ~Aligned(f, k)'
      OBVIOUS
    <3>1. thread' = 1 /\ record' = 1 /\ f \in Nat /\ f >= 1 /\ k >= 1 /\ k \in Int
      BY <1>1, <1>2, <2>4, <2>9
    <3>. QED BY <3>1 DEF Aligned
  <2>17. SplitExactly'
    BY <2>4, <2>16 DEF SplitExactly
  <2>. QED BY <1>1, <1>2, <2>15, <2>17 DEF HistIInv
<1>. QED BY <1>3, <1>4

\* What the property says of a record that is aligned already stays.
LEMMA ExactStays ==
  ASSUME NEW f, NEW k, NEW j,
         hist' = hist, starts' = starts, ends' = ends, time_quantum' = time_quantum,
         \A s \in shares' : s \in shares \/ ~(s.thread = f /\ s.record = k),
         shares \subseteq shares'
  PROVE  ExactIn(f, k, j)' <=> ExactIn(f, k, j)
<1>1. /\ min_timestamp_ms' = min_timestamp_ms /\ max_timestamp_ms' = max_timestamp_ms
      /\ time_qtm_ms' = time_qtm_ms
  BY DEF min_timestamp_ms, max_timestamp_ms, time_qtm_ms
<1>2. time_interval_count' = time_interval_count
  BY <1>1 DEF time_interval_count
<1>3. end_time_ms' = end_time_ms
  BY <1>1, <1>2 DEF end_time_ms
<1>4. MsIn(f, k, j)' = MsIn(f, k, j)
  BY <1>1, <1>3 DEF MsIn, Until, QuantumStart
<1>5. SharesOf(f, k, j)' = SharesOf(f, k, j)
  BY DEF SharesOf
<1>. QED BY <1>4, <1>5 DEF ExactIn

LEMMA AlignRecordKeeps ==
  ASSUME HistIInv, AlignRecord
  PROVE  HistIInv'
<1>. DEFINE recs == hist[thread]
            time == recs[record].time
            end  == RecordEnd(recs, record)
            quanta == QuantaOf(time, end)
<1>1. /\ histAt = "align" /\ Len(hist) = 2 /\ thread \in 1..2 /\ record \in 1..Len(recs)
      /\ starts \in Seq(Int) /\ ends \in Seq(Int) /\ Len(starts) = 2 /\ Len(ends) = 2
      /\ time_quantum \in Quanta /\ hist \in Seq(Seq(HistLine))
      /\ \A s \in shares : s.thread \in Nat /\ s.record \in Nat /\ Aligned(s.thread, s.record)
  BY DEF HistIInv, HistTypeOK, AlignRecord
<1>2. /\ logs' = logs /\ time_quantum' = time_quantum /\ log_hist_msec' = log_hist_msec
      /\ hist' = hist /\ starts' = starts /\ ends' = ends
  BY DEF AlignRecord, arguments
<1>3. CASE AssertionFails(recs, record) \/ AlignRaises(quanta, time, end)
  <2>1. histAt' = "raised" /\ thread' = thread
    BY <1>3 DEF AlignRecord
  <2>. QED BY <1>2, <2>1 DEF HistIInv, HistTypeOK, SplitExactly, TimesGrow
<1>4. CASE ~(AssertionFails(recs, record) \/ AlignRaises(quanta, time, end))
  <2>. DEFINE new == {Share(record, q, time, end) : q \in quanta}
  <2>1. /\ shares' = shares \cup new
        /\ IF record < Len(recs)
           THEN record' = record + 1 /\ histAt' = histAt /\ thread' = thread
           ELSE /\ record' = 1
                /\ thread' = IF thread < Len(logs) THEN thread + 1 ELSE 1
                /\ histAt' = IF thread < Len(logs) THEN "align" ELSE "report"
    BY <1>4 DEF AlignRecord
  <2>2. Len(logs) = 2
    BY TwoLogs DEF HistIInv, HistTypeOK
  <2>3. ASSUME NEW f \in 1..2
        PROVE  hist[f] \in Seq(HistLine) /\ hist[f] # <<>> /\ TimesGrow(hist[f]) /\ Len(hist[f]) \in Nat \ {0}
    <3>. DEFINE T == Seq(HistLine)
    <3>1. hist[f] \in T
      <4>1. hist \in Seq(T)
        BY <1>1
      <4>. HIDE DEF T
      <4>. QED BY <1>1, <4>1, ElementOfSeq
    <3>2. hist[f] # <<>> /\ TimesGrow(hist[f])
      BY <1>1 DEF HistIInv, HistTypeOK
    <3>. QED BY <3>1, <3>2, LenProperties, EmptySeq
  <2>4. /\ min_timestamp_ms \in Int /\ time_qtm_ms \in Nat \ {0} /\ time_interval_count \in Int
        /\ end_time_ms \in Int
    BY <1>1, TimesOfTwo
  <2>5. recs \in Seq(HistLine) /\ TimesGrow(recs)
    BY <1>1, <2>3
  <2>6. end = Until(thread, record) /\ end \in Int
    BY <1>1, <1>4, <2>4, <2>5, RecordEndIsUntil
  <2>7. time \in Int
    <3>1. \A l \in HistLine : l.time \in Int
      BY DEF HistLine
    <3>2. recs[record] \in HistLine
      <4>. HIDE DEF recs
      <4>. QED BY <1>1, <2>5, ElementOfSeq
    <3>. QED BY <3>1, <3>2
  <2>8. ASSUME NEW s \in new
        PROVE  s.thread = thread /\ s.record = record
    BY DEF Share
  <2>9. \A f \in 1..2 : \A k \in 1..Len(hist[f]) :
          Aligned(f, k)' <=> Aligned(f, k) \/ (f = thread /\ k = record)
    <3>. SUFFICES ASSUME NEW f \in 1..2, NEW k \in 1..Len(hist[f])
                  PROVE  Aligned(f, k)' <=> Aligned(f, k) \/ (f = thread /\ k = record)
      OBVIOUS
    <3>1. k \in Nat /\ k >= 1 /\ record \in Nat /\ k <= Len(hist[f]) /\ Len(hist[f]) \in Nat /\ record <= Len(recs) /\ Len(recs) \in Nat
      BY <1>1, <2>3
    <3>2. CASE record < Len(recs)
      BY <1>1, <2>1, <3>1, <3>2 DEF Aligned
    <3>3. CASE ~(record < Len(recs)) /\ thread < 2
      BY <1>1, <2>1, <2>2, <3>1, <3>3 DEF Aligned
    <3>4. CASE ~(record < Len(recs)) /\ ~(thread < 2)
      BY <1>1, <2>1, <2>2, <3>1, <3>4 DEF Aligned
    <3>. QED BY <3>2, <3>3, <3>4
  <2>10. ~Aligned(thread, record)
    BY <1>1, <2>3 DEF Aligned
  <2>. HIDE DEF new
  <2>11. ASSUME histAt' = "align", NEW s \in shares'
         PROVE  s.thread \in Nat /\ s.record \in Nat /\ Aligned(s.thread, s.record)'
    <3>1. thread \in Int /\ record \in Int /\ s.thread \in Nat /\ s.record \in Nat
      BY <1>1, <2>1, <2>3, <2>8
    <3>2. Aligned(s.thread, s.record) \/ (s.thread = thread /\ s.record = record)
      BY <1>1, <2>1, <2>8
    <3>3. s.thread < thread \/ (s.thread = thread /\ s.record <= record)
      BY <1>1, <3>1, <3>2 DEF Aligned
    <3>4. CASE record < Len(recs)
      BY <2>1, <3>1, <3>2, <3>4, <1>1 DEF Aligned
    <3>5. CASE ~(record < Len(recs))
      <4>1. thread' = 2 /\ thread = 1
        BY <1>1, <2>1, <2>2, <2>11, <3>5
      <4>. QED BY <3>1, <3>3, <4>1 DEF Aligned
    <3>. QED BY <3>4, <3>5
  <2>12. HistTypeOK'
    <3>1. thread' \in 1..2 /\ histAt' \in {"align", "report"}
      BY <1>1, <2>1, <2>2
    <3>2. histAt' = "align" => record' \in 1..Len(hist[thread'])
      <4>1. CASE record < Len(recs)
        BY <1>1, <2>1, <2>3, <4>1
      <4>2. CASE ~(record < Len(recs))
        BY <2>1, <2>3, <3>1, <4>2
      <4>. QED BY <4>1, <4>2
    <3>3. \A f \in 1..Len(hist) : (hist[f] # <<>> /\ TimesGrow(hist[f]))'
      BY <1>1, <1>2, <2>3 DEF TimesGrow
    <3>. QED BY <1>1, <1>2, <3>1, <3>2, <3>3 DEF HistIInv, HistTypeOK
  <2>13. /\ min_timestamp_ms' = min_timestamp_ms /\ time_interval_count' = time_interval_count
         /\ \A f, k : Until(f, k)' = Until(f, k)
    <3>1. /\ min_timestamp_ms' = min_timestamp_ms /\ max_timestamp_ms' = max_timestamp_ms
          /\ time_qtm_ms' = time_qtm_ms
      BY <1>2 DEF min_timestamp_ms, max_timestamp_ms, time_qtm_ms
    <3>2. time_interval_count' = time_interval_count
      BY <1>2, <3>1 DEF time_interval_count
    <3>3. end_time_ms' = end_time_ms
      BY <1>2, <3>1, <3>2 DEF end_time_ms
    <3>. QED BY <1>2, <3>1, <3>2, <3>3 DEF Until
  <2>14. ASSUME NEW f \in 1..2, NEW k \in 1..Len(hist[f]), Aligned(f, k), NEW j, ExactIn(f, k, j)
         PROVE  ExactIn(f, k, j)'
    <3>1. ~(f = thread /\ k = record)
      BY <2>10, <2>14
    <3>2. \A s \in shares' : s \in shares \/ ~(s.thread = f /\ s.record = k)
      BY <2>1, <2>8, <3>1
    <3>. QED BY <1>2, <2>1, <2>14, <3>2, ExactStays
  <2>15. ASSUME min_timestamp_ms <= time, time < end, NEW j \in 0..(time_interval_count - 1),
                NEW f, NEW k, f = thread, k = record
         PROVE  ExactIn(f, k, j)'
    <3>1. f = thread /\ k = record
      BY <2>15
    <3>2. /\ \A q \in quanta : q \in 0..(time_interval_count - 1)
          /\ j \in quanta <=> Cardinality(Within(time, end, j)) # 0
          /\ j \in quanta => Cardinality(Within(time, end, j))
                               = Lesser(QuantumStart(j + 1), end) - Greater(QuantumStart(j), time)
      <4>. DEFINE t == time
                  e == end
      <4>1. t \in Int /\ e \in Int /\ min_timestamp_ms <= t /\ t < e
        BY <2>6, <2>7, <2>15
      <4>. HIDE DEF t, e
      <4>2. /\ \A q \in QuantaOf(t, e) : q \in 0..(time_interval_count - 1)
            /\ j \in QuantaOf(t, e) <=> Cardinality(Within(t, e, j)) # 0
            /\ j \in QuantaOf(t, e) => Cardinality(Within(t, e, j))
                                 = Lesser(QuantumStart(j + 1), e) - Greater(QuantumStart(j), t)
        BY <2>4, <4>1, OverlapExact
      <4>. QED BY <4>2 DEF t, e
    <3>3. MsIn(f, k, j)' = Cardinality(Within(time, end, j))
      <4>1. /\ min_timestamp_ms' = min_timestamp_ms /\ time_qtm_ms' = time_qtm_ms
            /\ Until(f, k)' = end
        BY <1>2, <2>6, <2>13, <3>1 DEF time_qtm_ms
      <4>. HIDE DEF end
      <4>. QED BY <1>2, <3>1, <4>1 DEF MsIn, Within, QuantumStart
    <3>4. \A s : s \in SharesOf(f, k, j)' <=> s \in new /\ s.interval = j
      <4>1. \A s \in shares : ~(s.thread = f /\ s.record = k)
        BY <1>1, <2>10, <3>1
      <4>. QED BY <2>1, <2>8, <3>1, <4>1 DEF SharesOf
    <3>. DEFINE share == Share(record, j, time, end)
    <3>5. \A q \in quanta : Share(record, q, time, end).interval = q
      BY <3>2 DEF Share
    <3>6. \A s : s \in new <=> \E q \in quanta : s = Share(record, q, time, end)
      BY DEF new
    <3>7. share.overlap = Lesser(QuantumStart(j + 1), end) - Greater(QuantumStart(j), time)
      BY DEF Share
    <3>8. CASE j \in quanta
      <4>1. SharesOf(f, k, j)' = {share}
        <5>. HIDE DEF quanta, time, end
        <5>. QED BY <3>4, <3>5, <3>6, <3>8
      <4>2. share.overlap = MsIn(f, k, j)' /\ MsIn(f, k, j)' # 0
        BY <3>2, <3>3, <3>7, <3>8
      <4>. HIDE DEF share
      <4>. QED BY <4>1, <4>2 DEF ExactIn
    <3>9. CASE j \notin quanta
      <4>1. SharesOf(f, k, j)' = {}
        <5>. HIDE DEF quanta, time, end
        <5>. QED BY <3>4, <3>5, <3>6, <3>9
      <4>2. MsIn(f, k, j)' = 0
        BY <3>2, <3>3, <3>9
      <4>. QED BY <4>1, <4>2 DEF ExactIn
    <3>. QED BY <3>8, <3>9
  <2>. HIDE DEF quanta
  <2>16. SplitExactly'
    <3>. SUFFICES ASSUME NEW f \in 1..Len(hist'), NEW k \in 1..Len(hist'[f]), Aligned(f, k)',
                         min_timestamp_ms' <= hist'[f][k].time, hist'[f][k].time < Until(f, k)',
                         NEW j \in 0..(time_interval_count' - 1)
                  PROVE  ExactIn(f, k, j)'
      BY DEF SplitExactly
    <3>1. /\ f \in 1..2 /\ k \in 1..Len(hist[f]) /\ min_timestamp_ms <= hist[f][k].time
          /\ hist[f][k].time < Until(f, k) /\ j \in 0..(time_interval_count - 1)
      BY <1>1, <1>2, <2>13
    <3>2. CASE Aligned(f, k)
      <4>1. ExactIn(f, k, j)
        BY <1>1, <3>1, <3>2 DEF HistIInv, SplitExactly
      <4>. QED BY <2>14, <3>1, <3>2, <4>1
    <3>3. CASE ~Aligned(f, k)
      <4>1. f = thread /\ k = record
        BY <2>9, <3>1, <3>3
      <4>2. min_timestamp_ms <= time /\ time < end
        BY <2>6, <3>1, <4>1
      <4>. QED BY <2>15, <3>1, <4>1, <4>2
    <3>. QED BY <3>2, <3>3
  <2>. QED BY <2>11, <2>12, <2>16 DEF HistIInv
<1>. QED BY <1>3, <1>4

LEMMA HistIInvInit == Init => HistIInv
<1>. SUFFICES ASSUME Init PROVE HistIInv
  OBVIOUS
<1>1. /\ logs \in LogPairs /\ time_quantum \in Quanta /\ log_hist_msec \in HistMsecs
      /\ histAt = "parse" /\ thread = 1 /\ record = 1
      /\ hist = <<>> /\ starts = <<>> /\ ends = <<>> /\ shares = {}
  BY DEF Init, HistInit
<1>2. /\ hist \in Seq(Seq(HistLine)) /\ starts \in Seq(Int) /\ ends \in Seq(Int)
      /\ Len(hist) = 0 /\ Len(starts) = 0 /\ Len(ends) = 0
  BY <1>1
<1>3. HistTypeOK
  BY <1>1, <1>2 DEF HistTypeOK
<1>. QED BY <1>1, <1>3 DEF HistIInv, SplitExactly

LEMMA HistIInvStep == HistIInv /\ [Next]_vars => HistIInv'
<1>. SUFFICES ASSUME HistIInv, [Next]_vars PROVE HistIInv'
  OBVIOUS
<1>1. CASE ParseLog
  BY <1>1, ParseLogKeeps
<1>2. CASE AlignRecord
  BY <1>2, AlignRecordKeeps
<1>3. CASE Report \/ UNCHANGED histVars
  <2>1. /\ logs' = logs /\ time_quantum' = time_quantum /\ log_hist_msec' = log_hist_msec
        /\ hist' = hist /\ starts' = starts /\ ends' = ends /\ thread' = thread /\ record' = record
        /\ shares' = shares /\ (histAt' \in {"raised", "done"} \/ histAt' = histAt)
    BY <1>3 DEF Report, histVars, arguments
  <2>2. \A f \in 1..Len(hist) : (hist[f] # <<>> /\ TimesGrow(hist[f]))'
    BY <2>1 DEF HistIInv, HistTypeOK, TimesGrow
  <2>3. HistTypeOK'
    BY <2>1, <2>2 DEF HistIInv, HistTypeOK
  <2>4. CASE histAt' \in {"raised", "done"}
    BY <2>3, <2>4 DEF HistIInv, SplitExactly
  <2>5. CASE histAt' = histAt
    <3>1. /\ min_timestamp_ms' = min_timestamp_ms /\ max_timestamp_ms' = max_timestamp_ms
          /\ time_qtm_ms' = time_qtm_ms
      BY <2>1 DEF min_timestamp_ms, max_timestamp_ms, time_qtm_ms
    <3>2. time_interval_count' = time_interval_count
      BY <2>1, <3>1 DEF time_interval_count
    <3>3. end_time_ms' = end_time_ms
      BY <2>1, <3>1, <3>2 DEF end_time_ms
    <3>4. \A f, k : Until(f, k)' = Until(f, k) /\ (Aligned(f, k)' <=> Aligned(f, k))
      BY <2>1, <2>5, <3>3 DEF Until, Aligned
    <3>5. \A f, k, j : ExactIn(f, k, j)' <=> ExactIn(f, k, j)
      BY <2>1, ExactStays
    <3>6. SplitExactly'
      BY <2>1, <2>5, <3>1, <3>2, <3>4, <3>5 DEF HistIInv, SplitExactly
    <3>7. histAt' = "align" =>
            \A s \in shares' : s.thread \in Nat /\ s.record \in Nat /\ Aligned(s.thread, s.record)'
      BY <2>1, <2>5 DEF HistIInv, Aligned
    <3>. QED BY <2>3, <3>6, <3>7 DEF HistIInv
  <2>. QED BY <2>1, <2>4, <2>5
<1>. QED BY <1>1, <1>2, <1>3
     DEF Next, vars, fioBoth, otherVars, Fio, Histogram, Drift, Blame, Matrix, HistNext

\* A record of a histogram log that starts when all threads run and lasts for a while is
\* split without loss: each interval gets the milliseconds the record has in it, once
\* (align_histo_log), for any logs of two threads and any quantum.
THEOREM SplitWithoutLoss == Spec => []SplitExactly
<1>1. HistIInv => SplitExactly
  BY DEF HistIInv
<1>. QED BY <1>1, HistIInvInit, HistIInvStep, PTL DEF Spec
=============================================================================
