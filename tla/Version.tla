------------------------------ MODULE Version -------------------------------
(***************************************************************************)
(* The ordering of version strings (internal/version/version.go), which    *)
(* the update policy takes for an order of releases.  The other modules    *)
(* number releases in this order; module VersionProofs shows that there is *)
(* one.                                                                    *)
(*                                                                         *)
(* A string is what Parse finds in it: the components between the dots,    *)
(* each a number or Bad, and the pre-release tag.  Tags, and strings that  *)
(* cannot be parsed, only meet strings.Compare, so they are numbered in    *)
(* byte order; the empty tag is 0.  A leading "v" and build metadata leave *)
(* the components and the tag as they are.  Go's int holds the difference  *)
(* of two components, since neither is negative.                           *)
(***************************************************************************)
EXTENDS Integers, Sequences

Bad == -1

Text == [fields : Seq(Nat \cup {Bad}), pre : Nat, raw : Nat]

(* MAJOR.MINOR.PATCH, all of them numbers.                                 *)
Valid(t) == Len(t.fields) = 3 /\ \A i \in 1 .. 3 : t.fields[i] # Bad

(* strings.Compare, and what the loop makes of a difference.               *)
Sign(n) == IF n < 0 THEN -1 ELSE IF n > 0 THEN 1 ELSE 0

(* A final release follows its pre-releases.                               *)
ComparePre(p, q) ==
    CASE p = q             -> 0
      [] p # q /\ p = 0    -> 1
      [] p # q /\ q = 0    -> -1
      [] OTHER             -> Sign(p - q)

(* The first component that differs decides.                               *)
CompareParsed(a, b) ==
    CASE a.fields[1] # b.fields[1]     -> Sign(a.fields[1] - b.fields[1])
      [] /\ a.fields[1] = b.fields[1]
         /\ a.fields[2] # b.fields[2]  -> Sign(a.fields[2] - b.fields[2])
      [] /\ a.fields[1] = b.fields[1]
         /\ a.fields[2] = b.fields[2]
         /\ a.fields[3] # b.fields[3]  -> Sign(a.fields[3] - b.fields[3])
      [] OTHER                         -> ComparePre(a.pre, b.pre)

Compare(a, b) ==
    CASE ~Valid(a) /\ ~Valid(b) -> Sign(a.raw - b.raw)
      [] ~Valid(a) /\ Valid(b)  -> -1
      [] Valid(a) /\ ~Valid(b)  -> 1
      [] OTHER                  -> CompareParsed(a, b)

Newer(a, b) == Compare(a, b) > 0

Older(a, b) == Compare(a, b) < 0

-----------------------------------------------------------------------------
(* The order that version.go's comments describe, as one key per string:   *)
(* what cannot be parsed comes first, then MAJOR.MINOR.PATCH, a            *)
(* pre-release before its final release, and tags in byte order.  For that *)
(* last part it is "a small subset of semver": version.go puts rc.10       *)
(* before rc.9, where semantic versioning compares the numbers.            *)

Key(t) ==
    IF Valid(t)
    THEN <<1, t.fields[1], t.fields[2], t.fields[3], IF t.pre = 0 THEN 1 ELSE 0, t.pre>>
    ELSE <<0, t.raw, 0, 0, 0, 0>>

SortsBefore(p, q) ==
    \E k \in 1 .. 6 : p[k] < q[k] /\ \A j \in 1 .. k - 1 : p[j] = q[j]

=============================================================================
