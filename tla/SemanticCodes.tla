--------------------------- MODULE SemanticCodes ---------------------------
(* The codes of places and what is computed from them alone: codes.py,       *)
(* tokens.py, code_dict.py and decode.py.  A place is named by a number, so  *)
(* that sorting by google_place_id is the order of numbers.  A code is a     *)
(* sequence of Levels numbers, and a collision number behind them.           *)
EXTENDS Integers, Sequences, FiniteSets, SequencesExt

CONSTANTS
  Levels,        \* LEVELS, 3 in the code
  CODEBOOK,      \* numbers of one level
  MAX_COLLISION  \* collision numbers a token exists for

ASSUME CodesAssumption == Levels \in Nat /\ CODEBOOK \in Nat \ {0} /\ MAX_COLLISION \in Nat \ {0}

Depth == Levels + 1

\* Mutant: the group is what shares the first level.
CollisionIdsByHead(codes) ==
  [k \in DOMAIN codes |->
     Append(codes[k], Cardinality({l \in DOMAIN codes : l < k /\ codes[l][1] = codes[k][1]}))]

(* Places of one code are numbered in the order of their keys. *)
assign_collision_ids(codes) ==
  [k \in DOMAIN codes |->
     Append(codes[k], Cardinality({l \in DOMAIN codes : l < k /\ codes[l] = codes[k]}))]

(* place_tokens raises on a code out of range.  A token is its position and  *)
(* its number, which the ranges of the levels keep apart, so the code itself *)
(* stands for its tokens.                                                    *)
InRange(code) ==
  /\ \A i \in 1..Levels : code[i] \in 0..(CODEBOOK - 1)
  /\ code[Depth] \in 0..(MAX_COLLISION - 1)

(* One place per code, or an error. *)
build_dictionary(ids) ==
  [code \in {ids[g] : g \in DOMAIN ids} |-> CHOOSE g \in DOMAIN ids : ids[g] = code]

DictionaryRaises(ids) == \E g, h \in DOMAIN ids : g # h /\ ids[g] = ids[h]

(* The trie of a pool as the set of its paths; the place a full path leads   *)
(* to is the last one written there.                                         *)
build_trie(pool) == {SubSeq(pool[g], 1, i) : g \in DOMAIN pool, i \in 1..Depth}

PlaceAt(pool, path) ==
  CHOOSE g \in DOMAIN pool : pool[g] = path /\ \A h \in DOMAIN pool : pool[h] = path => h <= g

(* Beams are ordered by score, then by token numbers.  A cost is a negated   *)
(* log probability.                                                          *)
LexLess(a, b) == \E i \in DOMAIN a : a[i] < b[i] /\ \A j \in 1..(i - 1) : a[j] = b[j]

Before(x, y) == x.cost < y.cost \/ (x.cost = y.cost /\ LexLess(x.path, y.path))

Ahead(S, x) == {y \in S : Before(y, x)}

(* The sorted beams as a set, and a Python slice [:n] of them, with n below  *)
(* zero too.                                                                 *)
Leading(S, n) == {x \in S : Cardinality(Ahead(S, x)) < (IF n >= 0 THEN n ELSE Cardinality(S) + n)}

(* Every child of every beam, at the cost the model gives the next token. *)
Children(trie, path) == {q \in trie : Len(q) = Len(path) + 1 /\ Front(q) = path}

Expand(trie, cost, beams) ==
  UNION {{[path |-> q, cost |-> b.cost + cost[q]] : q \in Children(trie, b.path)} : b \in beams}

\* Mutant: the order looks at the last token alone.
BeamByLastToken(pool, cost, width) ==
  LET trie == build_trie(pool)
      Last1(S, x) == {y \in S : cost[y.path] < cost[x.path]
                                  \/ (cost[y.path] = cost[x.path] /\ LexLess(y.path, x.path))}
      kept[n \in 0..Depth] ==
        IF n = 0 THEN {[path |-> <<>>, cost |-> 0]}
        ELSE LET S == Expand(trie, cost, kept[n - 1]) IN {x \in S : Cardinality(Last1(S, x)) < width}
  IN  kept[Depth]

(* Level by level the best width beams are kept; none left, no place. *)
beam_search(pool, cost, width) ==
  LET trie == build_trie(pool)
      kept[n \in 0..Depth] ==
        IF n = 0 THEN {[path |-> <<>>, cost |-> 0]}
        ELSE Leading(Expand(trie, cost, kept[n - 1]), width)
  IN  kept[Depth]
=============================================================================
