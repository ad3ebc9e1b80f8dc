---------------------------- MODULE MCMessageLink ----------------------------
(* Small requests for MessageLink: two scopes, two locales, two units.      *)
EXTENDS MessageLinkProperties

X   == <<"x">>
XY  == <<"x", "y">>
XZY == <<"x", "z", "y">>

Definition(scope, key, locale, at) == [scope |-> scope, key |-> key, locale |-> locale, at |-> at]

\* Two keys in both locales, one only outside the baseline locale, and one
\* another scope defines too.
Catalogs ==
    SUBSET {Definition("app", X, "en", 1), Definition("app", X, "ja", 2),
            Definition("app", XY, "en", 3), Definition("app", XY, "ja", 4),
            Definition("app", XZY, "ja", 5), Definition("lib", X, "en", 6)}

Selectors ==
    {Exact(X), Exact(XY), Prefix(XY), AllInScope, UnboundedDynamic,
     Pattern(<<Literal("x"), AnyOne>>),
     Pattern(<<AnyMany, Literal("y")>>),
     Pattern(<<Literal("x"), AnyMany, AnyOne, AnyMany>>)}

Reference(id, unit, scope, selector) ==
    [id |-> id, unit |-> unit, scope |-> scope, selector |-> selector]

\* At most one reference in each unit.
OneEach ==
    {m \cup l : m \in {{}} \cup {{Reference(1, "main", "app", s)} : s \in Selectors},
                l \in {{}} \cup {{Reference(2, "lazy", "app", s)} : s \in Selectors}}
\* One reference, and one from the other scope.
OneMain ==
    {{Reference(1, "main", "app", s)} : s \in Selectors}
    \cup {{Reference(1, "main", "lib", Exact(X)), Reference(2, "lazy", "app", Exact(XY))}}

Apart == [app |-> "app", lib |-> "lib"]
Merged == [app |-> "app", lib |-> "app"]
Incomplete(definitions, references) == [definitions |-> definitions, references |-> references]
Complete == Incomplete({}, {})
NoFallback == [l \in {} |-> <<>>]
ToEnglish == [ja |-> <<"en">>]
English(scope) == [scope |-> scope, locale |-> "en"]

Submitted(definitions, references, mapping, partial, fallbacks, roots, baselines, dynamic) ==
    [definitions |-> definitions, references |-> references, mapping |-> mapping,
     partial |-> partial, locales |-> {"en", "ja"}, fallbacks |-> fallbacks, roots |-> roots,
     baselines |-> baselines, dynamic |-> dynamic,
     units |-> {"main", "lazy"}, edges |-> {<<"main", "lazy">>}]

\* Resolution: every catalog, every pair of references, with and without fallback.
Resolutions ==
    {Submitted(c, f, Apart, Complete, b, {}, {English("app")}, "compat") :
        c \in Catalogs, f \in OneEach, b \in {NoFallback, ToEnglish}}

\* Policy: scopes, completeness, roots, baselines and the dynamic mode.
Policies ==
    {Submitted(c, f, m, p, ToEnglish, roots, b, d) :
        c \in Catalogs, f \in OneMain, m \in {Apart, Merged},
        p \in {Complete, Incomplete({"lib"}, {}), Incomplete({}, {"app"})},
        roots \in {{}, {[scope |-> "app", selector |-> Exact(XY)]}},
        b \in {{}, {English("app")}}, d \in {"compat", "strict"}}

\* What admission turns away.
Plain == Submitted({Definition("app", X, "en", 1)}, {Reference(1, "main", "app", Exact(X))},
                   Apart, Complete, ToEnglish, {}, {English("app")}, "compat")
Refused ==
    {[Plain EXCEPT !.references = {Reference(1, "gone", "app", Exact(X))}],
     [Plain EXCEPT !.references = {Reference(1, "main", "gone", Exact(X))}],
     [Plain EXCEPT !.edges = {<<"main", "lazy">>, <<"lazy", "main">>}],
     [Plain EXCEPT !.mapping = [app |-> "lib", lib |-> "app"]],
     [Plain EXCEPT !.fallbacks = [ja |-> <<"ja">>]],
     [Plain EXCEPT !.locales = {"ja"}],
     [Plain EXCEPT !.mapping = Merged,
                   !.baselines = {English("app"), [scope |-> "lib", locale |-> "ja"]}]}

AllRequests == Resolutions \cup Policies \cup Refused
=============================================================================
