--------------------------- MODULE MCReconciliation ---------------------------
(* A small instance of Reconciliation for TLC.  The text of a source is at  *)
(* most MaxLength bytes; the scenes are grouped by what goes wrong in them, *)
(* and scenes past the first update are fewer.                              *)
EXTENDS ReconciliationProperties, TLC

CONSTANTS u, v, a, b, c
Units2 == {u, v}
Fresh == <<b, c>>
MaxLength == 3

Source(unit, revision, length) == [unit |-> unit, revision |-> revision, length |-> length]
Sources == [unit : Units2, revision : 1..4, length : 1..MaxLength]
AnyRange(length) == {r \in [from : 0..length, to : 0..length] : r.from <= r.to}
Ranges(length) == {r \in AnyRange(length) : r.from < r.to}
At1(source, from, to) == [source |-> source, range |-> ByteRange(from, to)]
Whole(source) == At1(source, 0, source.length)
MCDeclarations == [source : Sources, range : AnyRange(MaxLength)]

Replacements1 == [from : 0..MaxLength, to : 0..MaxLength, text : 0..MaxLength]
MCEdits == [before : Sources \cup {Nowhere}, after : Sources \cup {Nowhere},
            replacements : Seq(Replacements1),
            replay : {"ok", "source-unavailable", "mismatch"}]
MCInventories == [units : SUBSET Sources, declarations : SUBSET MCDeclarations,
                  complete : BOOLEAN, pins : 1..2, checked : BOOLEAN]

Inventory(units, declarations) ==
    [units |-> units, declarations |-> declarations, complete |-> TRUE, pins |-> 1,
     checked |-> TRUE]
Inputs(inventory, previous, edits) ==
    [edits |-> edits, membership |-> UnitsOf(inventory.units), previous |-> previous,
     explicit |-> {}, links |-> {}, candidates |-> Fresh]
Scene(inventory, inputs) == [inventory |-> inventory, inputs |-> inputs]
Edit(before, after, replacements) ==
    [before |-> before, after |-> after, replacements |-> replacements, replay |-> "ok"]

-----------------------------------------------------------------------------
(* The texts: one or two declarations in a file, next to each other, apart, *)
(* or with text around them.                                                *)
Texts(source) ==
    {{}} \cup {{At1(source, r.from, r.to)} : r \in AnyRange(source.length)}
         \cup {{At1(source, r.from, r.to), At1(source, s.from, s.to)} :
                  <<r, s>> \in {p \in Ranges(source.length) \X Ranges(source.length) :
                                   p[1].to <= p[2].from}}

\* Every list of at most two replacements that gives a text of that length;
\* of two, each only inserts or only deletes.
Lists(before, after) ==
    LET r1 == {r \in Replacements1 : r.from <= r.to /\ r.to <= before}
        one == {<<r>> : r \in r1}
        pure == {r \in r1 : (r.from = r.to) # (r.text = 0)}
        two == {p \in pure \X pure : ValidReplacements(p, before)}
        gives(p) == before + Shift(p, DOMAIN p) = after
    IN  {p \in one \cup two : gives(p)}

First(unit, length) == Source(unit, 1, length)
Genesis ==
    LET u2 == First(u, 2)
        u3 == First(u, 3)
        v2 == First(v, 2)
    IN  {Inventory({u2}, {At1(u2, 1, 2)}),
         Inventory({u3}, {At1(u3, 2, 2)}),
         Inventory({u2}, {Whole(u2)}),
         Inventory({u3}, {At1(u3, 0, 1), At1(u3, 1, 3)}),
         Inventory({u3, v2}, {Whole(u3), Whole(v2)}),
         Inventory({u3, v2}, {At1(u3, 1, 2)})}
GenesisScenes ==
    LET full == {Scene(i, [Inputs(i, {}, {}) EXCEPT !.candidates = <<a, b>>]) : i \in Genesis}
    IN  full \cup UNION {
            {[s EXCEPT !.inputs.membership = {u}],
             [s EXCEPT !.inputs.candidates = <<a>>],
             [s EXCEPT !.inputs.candidates = <<a, a>>],
             [s EXCEPT !.inventory.checked = FALSE],
             [s EXCEPT !.inventory.complete = FALSE]} : s \in full}

-----------------------------------------------------------------------------
(* Scenes from a base: `last' is its inventory, `next' the revision.        *)

Rest(last, unit) ==
    [units |-> {s \in last.units : s.unit # unit},
     declarations |-> {d \in last.declarations : d.source.unit # unit}]
With(rest, sources, declarations) ==
    Inventory(rest.units \cup sources, rest.declarations \cup declarations)

\* One file is edited.
Edited(last, next, lengths) ==
    UNION {UNION {LET after == Source(u, next, n)
                      rest == Rest(last, u)
                  IN  {LET i == With(rest, {after}, text)
                       IN  Scene(i, Inputs(i, {last}, {Edit(before, after, list)})) :
                            text \in Texts(after), list \in Lists(before.length, n)}
                  : n \in lengths} : before \in {s \in last.units : s.unit = u}}

\* A file is created, removed, renamed, copied, or replaced by another one,
\* with the host's membership right or behind.
Relocated(last, next) ==
    LET to == Source(v, next, 3)
        rest == Rest(last, u)
        gone == With(rest, {}, {})
        Removals(s) == {Edit(s, Nowhere, list) : list \in Lists(s.length, 0)}
        Renames(s) == {Edit(s, to, list) : list \in
                          {<<Replacement(0, s.length, 3)>>}
                          \cup {l \in {<<>>} : s.length = 3}}
        Created == Edit(Nowhere, to, <<Replacement(0, 0, 3)>>)
        texts == {{Whole(to)}, {At1(to, 0, 1), At1(to, 1, 3)}, {At1(to, 1, 2)}}
        at(s) ==
            {Scene(gone, Inputs(gone, {last}, edits)) :
                edits \in {{}} \cup {{e} : e \in Removals(s)}}
            \cup UNION {LET moved == Inventory({to}, text)
                            copied == With(last, {to}, text)
                        IN  {Scene(moved, Inputs(moved, {last}, edits)) :
                                edits \in {{}, {Created}} \cup {{e} : e \in Renames(s)}}
                            \cup {Scene(copied, Inputs(copied, {last}, edits)) :
                                edits \in {{}, {Created}} \cup {{e} : e \in Renames(s)}}
                        : text \in texts}
        known == UNION {at(s) : s \in {s \in last.units : s.unit = u}}
    IN  known \cup {[s EXCEPT !.inputs.membership = @ \cup {u}] : s \in known}
              \cup {[s EXCEPT !.inventory.complete = FALSE] : s \in known}

\* A line is written in front and the evidence for it is incomplete.
Unsupported(last, next) ==
    UNION {LET after == Source(u, next, 3)
               i == With(Rest(last, u), {after}, {At1(after, 0, 1), At1(after, 2, 3)})
               edit == Edit(before, after, <<Replacement(0, 0, 1)>>)
               fine == Scene(i, Inputs(i, {last}, {edit}))
           IN  {[fine EXCEPT !.inputs.previous = {}],
                [fine EXCEPT !.inventory.pins = 2],
                [fine EXCEPT !.inventory.checked = FALSE],
                [fine EXCEPT !.inventory.complete = FALSE],
                [fine EXCEPT !.inputs.membership = {v}],
                [fine EXCEPT !.inputs.membership = Units2],
                [fine EXCEPT !.inputs.candidates = <<>>],
                [fine EXCEPT !.inputs.candidates = <<a>>],
                [fine EXCEPT !.inputs.candidates = <<c, c>>],
                [fine EXCEPT !.inputs.edits =
                    {[edit EXCEPT !.replacements = <<Replacement(0, 3, 3)>>]}],
                [fine EXCEPT !.inputs.edits =
                    {[edit EXCEPT !.replacements = <<Replacement(1, 1, 1), Replacement(0, 0, 1)>>]}]}
               \cup {[fine EXCEPT !.inputs.edits = {[edit EXCEPT !.replay = gap]}] :
                        gap \in {"source-unavailable", "mismatch"}}
               \cup {[fine EXCEPT !.inputs.links = {link}] : link \in
                        {[kind |-> "copy", predecessors |-> {a}, successors |-> {b}],
                         [kind |-> "merge", predecessors |-> {a, c}, successors |-> {b}],
                         [kind |-> "split", predecessors |-> {a}, successors |-> {b}]}}
           : before \in {s \in last.units : s.unit = u /\ s.length = 2}}

\* The host decides about at most two IDs, perhaps for another registry.
Chosen(last, next, entries, many) ==
    LET Explicit(kind, id, from, to) ==
            [kind |-> kind, id |-> id, from |-> from, to |-> to, basis |-> "explicit",
             changes |-> {}]
        Options(i) ==
            {Explicit("allocate", c, Nowhere, to) : to \in i.declarations}
            \cup {Explicit(IF e.state = "retired" THEN "restore" ELSE "continue",
                           e.id, e.declaration, to) : e \in entries, to \in i.declarations}
        after == Source(u, next, 2)
        Changed(texts) == With(Rest(last, u), {after}, texts)
        inventories == {last, Changed({Whole(after)}),
                        Changed({At1(after, 0, 1), At1(after, 1, 2)})}
        bound(i, ds, base) ==
            Scene(i, [Inputs(i, {last}, {}) EXCEPT
                !.explicit = {[base |-> base, inventory |-> i, decision |-> d] : d \in ds}])
        at(i) == {bound(i, {d}, base) : d \in Options(i), base \in {next - 1, next - 2}}
                 \cup IF many THEN {bound(i, {d, e}, next - 1) : d, e \in Options(i)} ELSE {}
    IN  UNION {at(i) : i \in inventories}

MCScenes(history) ==
    IF history = <<>> THEN GenesisScenes
    ELSE LET n == Len(history)
             last == history[n].update.inventory
             entries == history[n].entries
         IN  CASE n = 1 -> Edited(last, 2, {2, 3}) \cup Relocated(last, 2)
                           \cup Unsupported(last, 2) \cup Chosen(last, 2, entries, TRUE)
               [] n = 2 -> Relocated(last, 3) \cup Chosen(last, 3, entries, FALSE)
               [] OTHER -> {}

-----------------------------------------------------------------------------
(* Updates formed by hand over the last inventory: for the first entry, for *)
(* a fresh ID, or a swap of two entries; some fit and some do not.          *)
MCHandMade(history) ==
    IF history = <<>> THEN {}
    ELSE LET n == Len(history)
             i == history[n].update.inventory
             entries == history[n].entries
             D(kind, id, from, to) ==
                [kind |-> kind, id |-> id, from |-> from, to |-> to,
                 basis |-> IF kind = "retire" THEN "complete-absence" ELSE "explicit",
                 changes |-> {}]
             Move(e, to) == D(IF e.state = "retired" THEN "restore" ELSE "continue",
                              e.id, e.declaration, to)
             sets == UNION {
                {{D("retire", e.id, e.declaration, Nowhere)},
                 {D("retire", e.id, e.declaration, Nowhere),
                  D("allocate", c, Nowhere, e.declaration)},
                 {D("allocate", c, Nowhere, e.declaration)}} : e \in entries}
                \cup {{Move(e, f.declaration)} : e, f \in entries}
                \cup {{Move(e, f.declaration), Move(f, e.declaration)} : e, f \in entries}
         IN  {[base |-> n, inventory |-> i, decisions |-> ds, links |-> {}] : ds \in sets}
=============================================================================
