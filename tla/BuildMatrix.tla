----------------------------- MODULE BuildMatrix -----------------------------
(***************************************************************************)
(* ci/build_matrix.py: which images are built, and which manifests are     *)
(* made, for a set of changed files.  A path is a sequence of words and    *)
(* of the characters between them.                                         *)
(***************************************************************************)
EXTENDS Naturals, Sequences, FiniteSets, SequencesExt

CONSTANTS ARCHS, Tags,
          Found,        \* paths that "find snafu/ -name Dockerfile*" prints
          Diffs         \* sets of paths that "git diff --name-only" may print

VARIABLES
  changed_set, changed_only,
  matrixAt,          \* "reset", "build" or "built"
  todo,              \* Dockerfiles the loop of build has not come to
  build_matrix, manifest_matrix,
  builds             \* calls of build

matrixVars == <<changed_set, changed_only, matrixAt, todo, build_matrix, manifest_matrix, builds>>

Marks == {"/", ".", "_", "-"}
Dot   == "any character"
Letters == "[a-z]*"

\* A regular expression of the script, looked for anywhere in a path.  The words of the
\* paths are taken whole, by the letters too.
Matches(e, item) == \/ e = item
                    \/ e = Dot /\ item \in Marks
                    \/ e = Letters /\ item \notin Marks
Search(regex, path) ==
  \E i \in 0..(Len(path) - Len(regex)) : \A j \in 1..Len(regex) : Matches(regex[j], path[i + j])

BONES == {
  <<"ci", "/">>,
  <<Dot, "github", "/", "workflows">>,
  <<"MANIFEST", Dot, "in">>,
  <<"setup", Dot, "py">>,
  <<"setup", Dot, "cfg">>,
  <<"snafu", "/", "benchmarks", "/", "_", Letters, Dot, "py">>,
  <<"snafu", "/", Letters, Dot, "py">>,
  <<"tox", Dot, "ini">>,
  <<"version", Dot, "txt">>,
  <<"requirements", "/">>}
IGNORES == {<<"Dockerfile", ".", "ppc64le">>}

\* parse_dockerfile_list.
dockerfile_set == {d \in Found : \A ignore \in IGNORES : ~Search(ignore, d)}

\* The parent of a path, with its last slash; the name of the benchmark is the word
\* before that slash, without _wrapper.
Parent(path) ==
  SubSeq(path, 1, CHOOSE i \in 1..Len(path) :
                    path[i] = "/" /\ \A j \in (i + 1)..Len(path) : path[j] # "/")
Benchmark(d) ==
  LET dir   == Parent(d)
      start == CHOOSE i \in 1..(Len(dir) - 1) :
                 dir[i] = "/" /\ \A j \in (i + 1)..(Len(dir) - 1) : dir[j] # "/"
      name  == SubSeq(dir, start + 1, Len(dir) - 1)
  IN IF Len(name) > 1 /\ IsSuffix(<<"_", "wrapper">>, name) THEN SubSeq(name, 1, Len(name) - 2) ELSE name

\* No two wrappers that are built are named alike.
ASSUME MatrixAssumption ==
  /\ IsFiniteSet(ARCHS) /\ IsFiniteSet(Tags)
  /\ \A d, e \in dockerfile_set : Benchmark(d) = Benchmark(e) => d = e

bones_changed == \E bone \in BONES, changed \in changed_set : Search(bone, changed)
benchmark_changed(d) == \E changed \in changed_set : IsPrefix(Parent(d), changed)
ImageChanged(d) == bones_changed \/ benchmark_changed(d)

MatrixInit ==
  /\ changed_set \in Diffs /\ changed_only \in BOOLEAN
  /\ matrixAt = "reset" /\ todo = {} /\ builds = 0
  /\ build_matrix = <<>> /\ manifest_matrix = <<>>

\* build begins.
Build ==
  /\ matrixAt = "reset"
  /\ matrixAt' = "build" /\ todo' = dockerfile_set /\ builds' = builds + 1
  /\ UNCHANGED <<changed_set, changed_only, build_matrix, manifest_matrix>>

\* MatrixEntry.new with build_json, for each architecture, and manifest_json, for each tag.
\* A tag with an architecture is what an image is pushed as.
BuildJson(d) ==
  SetToSeq({[dockerfile |-> d, image |-> Benchmark(d), arch |-> arch, changed |-> ImageChanged(d),
             tags |-> {<<tag, arch>> : tag \in Tags}] : arch \in ARCHS})
ManifestJson(d) ==
  SetToSeq({[dockerfile |-> d, image |-> Benchmark(d), tag |-> tag, changed |-> ImageChanged(d),
             suffixes |-> ARCHS] : tag \in Tags})

\* One Dockerfile of the set, in any order.
AddEntry ==
  /\ matrixAt = "build"
  /\ \E d \in todo :
       /\ todo' = todo \ {d}
       /\ IF ImageChanged(d) \/ ~changed_only
          THEN /\ build_matrix' = build_matrix \o BuildJson(d)
               /\ manifest_matrix' = manifest_matrix \o ManifestJson(d)
          ELSE UNCHANGED <<build_matrix, manifest_matrix>>
  /\ UNCHANGED <<changed_set, changed_only, matrixAt, builds>>

Added ==
  /\ matrixAt = "build" /\ todo = {}
  /\ matrixAt' = "built"
  /\ UNCHANGED <<changed_set, changed_only, todo, build_matrix, manifest_matrix, builds>>

\* Variant of Emptied: the matrix stays.
Kept(matrix) == matrix

\* reset, of one matrix.
Emptied(matrix) == <<>>

\* The builder is used again, with or without the unchanged ones, as its test does.
Reset ==
  /\ matrixAt = "built" /\ builds < 2
  /\ matrixAt' = "reset" /\ changed_only' \in BOOLEAN
  /\ build_matrix' = <<>> /\ manifest_matrix' = Emptied(manifest_matrix)
  /\ UNCHANGED <<changed_set, todo, builds>>

MatrixNext == Build \/ AddEntry \/ Added \/ Reset
-----------------------------------------------------------------------------
\* The two matrices of a call of build fit: no image is built twice for an architecture,
\* from the same Dockerfile or from two, every image that a manifest joins is built and
\* pushed by the same call, every image that is pushed is in one manifest, and both say
\* the same of what has changed.
MatricesFit ==
  matrixAt = "built" =>
    LET built == {build_matrix[i] : i \in 1..Len(build_matrix)}
        made  == {manifest_matrix[i] : i \in 1..Len(manifest_matrix)}
        Of(m) == {b \in built : b.image = m.image /\ b.dockerfile = m.dockerfile /\ b.changed = m.changed}
    IN /\ \A i, j \in 1..Len(build_matrix) :
            i # j => build_matrix[i].image # build_matrix[j].image \/ build_matrix[i].arch # build_matrix[j].arch
       /\ \A m \in made, arch \in ARCHS : \E b \in Of(m) : b.arch = arch /\ <<m.tag, arch>> \in b.tags
       /\ \A b \in built, tag \in Tags :
            Cardinality({i \in 1..Len(manifest_matrix) :
                           manifest_matrix[i].tag = tag /\ b \in Of(manifest_matrix[i])}) = 1
       /\ changed_only => \A b \in built : b.changed

\* docs/source/contributing/build_testing.md: after "a change within `run_snafu.py`, our
\* main entrypoint script", "a rebuild is required for each wrapper image".
RunSnafuRebuildsAll ==
  matrixAt = "built" /\ <<"snafu", "/", "run", "_", "snafu", ".", "py">> \in changed_set =>
    \A d \in dockerfile_set : \E i \in 1..Len(build_matrix) : build_matrix[i].dockerfile = d
=============================================================================
