------------------------------- MODULE JobLog -------------------------------
(* What a script that is started again and again promises of the file it     *)
(* appends to: a job may fail any number of times, but once a line of it     *)
(* holds an answer no further line of it is written, and no line changes.    *)
EXTENDS Sequences

CONSTANT Jobs

VARIABLE lines  \* job -> its lines in order: TRUE an answer, FALSE an error

Answered(k) == \E i \in DOMAIN lines[k] : lines[k][i]

JobInit == lines = [k \in Jobs |-> <<>>]

Line(k) == ~Answered(k) /\ \E ok \in BOOLEAN : lines'[k] = Append(lines[k], ok)

\* One write may hold lines of several jobs, one of each.
JobNext == \A k \in Jobs : Line(k) \/ lines'[k] = lines[k]

JobSpec == JobInit /\ [][JobNext]_lines
=============================================================================
