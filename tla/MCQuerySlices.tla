---------------------------- MODULE MCQuerySlices ----------------------------
(* Two paths with two versions each, and the shapes that take each route. *)
EXTENDS QuerySlices

R(id, key, match) == [id |-> id, key |-> key, match |-> match]

(* Ties within a file and across files, a row group that where rules out.     *)
Objects ==
  << << << <<R(1, 2, TRUE), R(2, 1, TRUE)>>, <<R(3, 1, FALSE)>>, <<R(4, 2, TRUE)>> >>,
        << <<R(5, 1, TRUE), R(6, 0, FALSE)>> >> >>,
     << << <<R(7, 1, TRUE), R(8, 0, TRUE)>> >>,
        << <<R(9, 0, FALSE), R(10, 2, TRUE), R(11, 1, TRUE)>> >> >> >>

Plain == [ordered |-> FALSE, where |-> FALSE, distinct |-> FALSE, scalar |-> FALSE, vector |-> TRUE,
          late |-> TRUE, cached |-> FALSE, reused |-> FALSE, limit |-> NoLimit, offset |-> 0,
          batchSize |-> 2, maxFiles |-> 9, maxOutputRows |-> 9, maxBufferedRows |-> 9]

Shapes ==
  { [Plain EXCEPT !.vector = FALSE, !.where = TRUE, !.offset = 1, !.limit = 3, !.maxOutputRows = 3],
    [Plain EXCEPT !.distinct = TRUE, !.limit = 3, !.maxBufferedRows = 3],
    [Plain EXCEPT !.distinct = TRUE, !.ordered = TRUE, !.offset = 1],
    [Plain EXCEPT !.limit = 3, !.reused = TRUE, !.maxOutputRows = 4],
    [Plain EXCEPT !.where = TRUE, !.offset = 1, !.maxFiles = 1],
    [Plain EXCEPT !.where = TRUE, !.limit = 2, !.offset = 1, !.batchSize = 1, !.maxBufferedRows = 3],
    [Plain EXCEPT !.where = TRUE, !.limit = 0, !.maxBufferedRows = 1],
    [Plain EXCEPT !.scalar = TRUE, !.ordered = TRUE, !.limit = 2, !.offset = 1, !.maxBufferedRows = 3],
    [Plain EXCEPT !.ordered = TRUE, !.batchSize = 1, !.cached = TRUE],
    [Plain EXCEPT !.ordered = TRUE, !.late = FALSE, !.limit = 3, !.where = TRUE, !.maxOutputRows = 3],
    [Plain EXCEPT !.ordered = TRUE, !.limit = 2, !.offset = 1, !.maxBufferedRows = 3] }
=============================================================================
