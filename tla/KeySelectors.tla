----------------------------- MODULE KeySelectors -----------------------------
(***************************************************************************)
(* Catalog keys and the selectors that name sets of them (crates/          *)
(* intlify_contract/src/key.rs, crates/intlify_linker/src/link.rs).  A key *)
(* is the sequence of its structural tokens.                               *)
(***************************************************************************)
EXTENDS Integers, FiniteSetsExt, SequencesExt

\* PatternToken
Literal(token) == [kind |-> "literal", token |-> token]
AnyOne == [kind |-> "one"]
AnyMany == [kind |-> "many"]

\* MessageSelector
Exact(key) == [kind |-> "exact", key |-> key]
Prefix(tokens) == [kind |-> "prefix", tokens |-> tokens]
Pattern(tokens) == [kind |-> "pattern", tokens |-> tokens]
AllInScope == [kind |-> "all"]
UnboundedDynamic == [kind |-> "unbounded"]

\* Tokens are kept in vectors.
IsVector(tokens) == tokens \in Seq(ToSet(tokens))

\* parse_pattern: not empty, and no two AnyMany side by side.
ValidPattern(pattern) ==
    /\ IsVector(pattern) /\ pattern # <<>>
    /\ \A t \in ToSet(pattern) : t \in {AnyOne, AnyMany} \/ t = Literal(t.token)
    /\ \A i \in 2..Len(pattern) : ~(pattern[i - 1] = AnyMany /\ pattern[i] = AnyMany)

\* What the payloads of a MessageSelector are.
ValidSelector(selector) ==
    \/ selector.kind = "exact" /\ selector = Exact(selector.key) /\ IsVector(selector.key)
    \/ selector.kind = "prefix" /\ selector = Prefix(selector.tokens) /\ IsVector(selector.tokens)
    \/ selector.kind = "pattern" /\ selector = Pattern(selector.tokens) /\ ValidPattern(selector.tokens)
    \/ selector \in {AllInScope, UnboundedDynamic}

-----------------------------------------------------------------------------
(* match_pattern runs the pattern as an automaton over the key: position p  *)
(* is active when the first p pattern tokens can stand for the key tokens   *)
(* read so far.                                                             *)

\* AnyMany also stands for nothing, so the position behind it is active too.
Closed(pattern, active) ==
    {p \in 0..Len(pattern) :
        \E q \in active : q <= p /\ \A i \in q + 1 .. p : pattern[i] = AnyMany}

\* Seeded fault: AnyMany stands for at most one token.
StepByOne(pattern, active, token) ==
    {p \in 1..Len(pattern) : p - 1 \in active /\ pattern[p] \in {Literal(token), AnyOne, AnyMany}}

\* Reading one key token.
Step(pattern, active, token) ==
    {p \in 1..Len(pattern) : p - 1 \in active /\ pattern[p] \in {Literal(token), AnyOne}}
    \cup {p \in active : p < Len(pattern) /\ pattern[p + 1] = AnyMany}

Active(pattern, key) ==
    LET after[n \in 0..Len(key)] ==
            IF n = 0 THEN Closed(pattern, {0})
            ELSE Closed(pattern, Step(pattern, after[n - 1], key[n]))
    IN  after

MatchPattern(pattern, key) == Len(pattern) \in Active(pattern, key)[Len(key)]

\* The states the match is charged for: the active positions after each token.
MatchStates(pattern, key) ==
    {s \in (0..Len(key)) \X (0..Len(pattern)) : s[2] \in Active(pattern, key)[s[1]]}

-----------------------------------------------------------------------------
\* select_candidates: the keys among the candidates a bounded selector
\* selects.  An exact selector needs no candidate.
SelectKeys(selector, candidates) ==
    CASE selector.kind = "exact"   -> {selector.key}
      [] selector.kind = "prefix"  -> {k \in candidates : IsPrefix(selector.tokens, k)}
      [] selector.kind = "pattern" -> {k \in candidates : MatchPattern(selector.tokens, k)}
      [] selector.kind = "all"     -> candidates

IsNonExactBounded(selector) == selector.kind \in {"prefix", "pattern", "all"}
=============================================================================
