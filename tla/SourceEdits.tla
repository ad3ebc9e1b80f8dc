------------------------------ MODULE SourceEdits ------------------------------
(***************************************************************************)
(* What an edit of a source does to a range of its text (crates/           *)
(* intlify_authoring_identity/src/continuity/edit.rs).  An edit is a       *)
(* sequence of replacements in before order, each a range of the before    *)
(* text and the length of the text put in its place.  Ranges are half      *)
(* open, and positions are counted in bytes from zero.                     *)
(***************************************************************************)
EXTENDS Integers, Sequences, FiniteSets

ByteRange(from, to) == [from |-> from, to |-> to]
Replacement(from, to, text) == [from |-> from, to |-> to, text |-> text]
\* ByteRange::new: a range is not reversed.
Replacements == {r \in [from : Nat, to : Nat, text : Nat] : r.from <= r.to}
Delta(r) == r.text - (r.to - r.from)

\* The change in length of the replacements at the positions in `at'.
Shift(replacements, at) ==
    LET sum[i \in 0..Len(replacements)] ==
            IF i = 0 THEN 0
            ELSE sum[i - 1] + IF i \in at THEN Delta(replacements[i]) ELSE 0
    IN  sum[Len(replacements)]

\* validate_replacements: inside the text, in order, and two insertions at
\* one position are combined.
ValidReplacements(replacements, length) ==
    /\ \A i \in DOMAIN replacements : replacements[i].to <= length
    /\ \A i \in DOMAIN replacements \ {1} :
          LET p == replacements[i - 1]
              r == replacements[i]
          IN  r.from >= p.to /\ ~(p.from = p.to /\ r.from = r.to /\ p.from = r.from)

\* How one replacement lies to a range.  An insertion at either end touches
\* it: its text could belong to the range or to its neighbour.
Relation(r, range) ==
    IF r.from = r.to
    THEN IF r.from < range.from THEN "before"
         ELSE IF r.from > range.to THEN "after"
         ELSE IF range.from < r.from /\ r.from < range.to THEN "inside"
         ELSE "touched"
    ELSE IF r.to < range.from THEN "before"
         ELSE IF r.from > range.to THEN "after"
         ELSE IF range.from < r.from /\ r.to < range.to THEN "inside"
         ELSE IF r.from <= range.from /\ range.to <= r.to THEN "replaced"
         ELSE "touched"

At(replacements, range, relation) ==
    {i \in DOMAIN replacements : Relation(replacements[i], range) = relation}

\* fate: the first replacement that is not clear of the range's ends decides.
Fate(replacements, range) ==
    LET ends == At(replacements, range, "touched") \cup At(replacements, range, "replaced")
    IN  IF ends = {} THEN "moved"
        ELSE Relation(replacements[CHOOSE i \in ends : \A j \in ends : i <= j], range)

\* Seeded fault: text inserted or deleted inside the range does not move its end.
MovedByStart(replacements, range) ==
    LET before == Shift(replacements, At(replacements, range, "before"))
    IN  ByteRange(range.from + before, range.to + before)

\* Where a range goes that survives.
Moved(replacements, range) ==
    LET before == Shift(replacements, At(replacements, range, "before"))
    IN  ByteRange(range.from + before,
                  range.to + before + Shift(replacements, At(replacements, range, "inside")))

\* inserted: a range of the after text lies inside one inserted text.
Inserted(replacements, range) ==
    \E i \in DOMAIN replacements :
        LET start == replacements[i].from + Shift(replacements, 1..(i - 1))
        IN  /\ replacements[i].text > 0
            /\ start <= range.from /\ range.to <= start + replacements[i].text

-----------------------------------------------------------------------------
(* The bytes themselves, as a reference for the arithmetic above.           *)

\* A byte of the before text survives unless it is replaced, and lands after
\* the replacements that end before it.
Survives(replacements, byte) ==
    \A i \in DOMAIN replacements :
        ~(replacements[i].from <= byte /\ byte < replacements[i].to)
Landing(replacements, byte) ==
    byte + Shift(replacements, {i \in DOMAIN replacements : replacements[i].to <= byte})
=============================================================================
