----------------------------- MODULE MCRunSnafu -----------------------------
(* A tool of two data objects, the first of which asks for Prometheus data, *)
(* run and indexed again from its archive.                                  *)
EXTENDS RunSnafu

CONSTANTS k1, k2, ceph

MCWork     == << <<"doc", "trigger">>, <<"doc">> >>
MCPodLists == {<<>>, <<k1, k2>>, <<k1, k1>>}

Env(tool, es, prom_es, es_index, keep) ==
  [tool |-> tool, es |-> es, prom_es |-> prom_es, es_index |-> es_index,
   create_archive |-> keep, archive_file |-> keep, dates |-> FALSE,
   parallel |-> FALSE]
Unnamed(e) == [e EXCEPT !.archive_file = FALSE]
Dated(e)   == [e EXCEPT !.dates = TRUE]
Parallel(e) == [e EXCEPT !.parallel = TRUE]

\* Every setting of a wrapper; of the other tools, those that reach other code.
MCEnvironments ==
  {Env("wrapper", es, p, x, c) :
     es \in {"absent", "up", "down"}, p \in Servers, x \in BOOLEAN, c \in BOOLEAN}
  \cup {Unnamed(Env("wrapper", "up", "absent", TRUE, TRUE)),
        Dated(Env("wrapper", "up", "absent", TRUE, TRUE)),
        Env("unknown", "up", "absent", FALSE, FALSE),
        Env("benchmark", "up", "absent", FALSE, TRUE),
        Parallel(Env("wrapper", "up", "up", FALSE, TRUE)),
        Parallel(Env("wrapper", "down", "absent", FALSE, FALSE)),
        Parallel(Env("benchmark", "up", "absent", TRUE, FALSE)),
        Parallel([Env("archive", "up", "absent", FALSE, FALSE) EXCEPT !.archive_file = TRUE])}
  \cup {[Env("archive", es, "absent", FALSE, FALSE) EXCEPT !.archive_file = named] :
          es \in {"absent", "up", "down"}, named \in BOOLEAN}
=============================================================================
