------------------------------ MODULE MCFront -------------------------------
(* Small instances of the request side for TLC. *)
EXTENDS Front

Default == [format |-> "absent", colour |-> "absent", shape |-> "absent", margin |-> Absent,
            size |-> Absent, level |-> Absent, content |-> 20,
            image |-> "none", scale |-> Absent, raise |-> "absent"]

\* The values on either side of every check.
Values ==
    [format  |-> {"png", "svg", "bad"},
     colour  |-> {"ok", "low", "bad"},
     shape   |-> {"square", "dot", "rounded", "bad"},
     margin  |-> {Malformed, 3, 4, 64, 65},
     size    |-> {Malformed, 63, 64, 4096, 4097, 5000, 5001},
     level   |-> {Malformed} \cup Levels,
     content |-> {0, 1, 1273, 1274, 2331, 2332, 2900, 2901},
     image   |-> {"good", "bad", "empty"},
     scale   |-> {Malformed, 0, 1, 25, 26},
     raise   |-> {"yes", "no", "bad"}]

Vary(r) == UNION {{[r EXCEPT ![f] = v] : v \in Values[f]} : f \in DOMAIN Values}

\* Any two fields off their default, with and without a logo, and every
\* logo on every level.
SomeRequests ==
    {r \in UNION {Vary(r) : r \in Vary(Default)}
         \cup Vary([Default EXCEPT !.image = "good", !.level = 3])
         \cup [format : {"absent"}, colour : {"absent"}, shape : {"absent"}, margin : {Absent},
               size : {Absent}, level : Levels, content : {20},
               image : {"good"}, scale : 1..25, raise : {"absent", "no"}] :
       r.image = "none" => r.scale = Absent /\ r.raise = "absent"}

\* Rows of five modules: no finder, one at the left, one on either side.
SomeRows ==
    {[n |-> 5, dark |-> d, finder |-> f] :
       d \in [0..4 -> BOOLEAN],
       f \in {[x \in 0..4 |-> FALSE], [x \in 0..4 |-> x < 2], [x \in 0..4 |-> x < 2 \/ x > 3]}}

AllVersions == 1..40

\* Pages of one, of everything and of a window of time.
SomeFilters == {[after |-> -1, before |-> 9, limit |-> 1], [after |-> 0, before |-> 2, limit |-> 1]}
=============================================================================
