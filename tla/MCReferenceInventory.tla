------------------------ MODULE MCReferenceInventory ------------------------
(* Two invocations over two paths: equal batches under other limits or other    *)
(* recognizers, a changed text, aliases, a batch over the byte ceiling, two     *)
(* namespaces with one path, and a document read under limits it fits, exceeds  *)
(* by one byte, and exceeds by more.                                            *)
EXTENDS ReferenceInventoryProperties

\* Sources 1 and 3 have one path in two namespaces; 2 is an alias candidate.
MCPathOf == <<"a", "b", "a", "c", "long">>
MCProfileOf == <<"bounded", "bounded", "bounded", "module", "bounded">>

\* Under the module goal "set" is called with an argument it refuses, or not.
Misusing(bytes, utf8, parses, module, script, misused) ==
    [bytes |-> bytes, utf8 |-> utf8, parses |-> parses,
     calls |-> [module |-> module, script |-> script],
     misused |-> [module |-> misused, script |-> {}]]
Text(bytes, utf8, parses, module, script) == Misusing(bytes, utf8, parses, module, script, {})
Both == {"module", "script"}
Esm == Text(1, TRUE, Both, {"t", "set"}, {"t"})
Sloppy == Text(1, TRUE, {"script"}, {}, {"t"})
Misled == Misusing(1, TRUE, Both, {"t"}, {"t"}, {"set"})
Broken == Text(1, TRUE, {}, {}, {})
Binary == Text(1, FALSE, {}, {}, {})
Large == Text(3, TRUE, Both, {}, {})
Half == Text(2, TRUE, Both, {"t"}, {"t"})

Of(sources, text) == [sources |-> sources, text |-> text]
File(path, identity, calls, wire, valid) ==
    [path |-> path, text |-> [identity |-> identity, calls |-> calls, wire |-> wire, valid |-> valid]]
Loose == File(9, "ext", {"k"}, 3, TRUE)
Torn == File(9, "ext", {"k"}, 2, FALSE)

Limits(decoded, wire) == [decoded |-> decoded, wire |-> wire]
Request(groups, recognizers, limits, externals) ==
    [groups |-> groups, recognizers |-> recognizers, limits |-> limits, externals |-> externals]

MCRequests == {
    Request({Of({1}, Esm), Of({2}, Sloppy)}, {"t", "set"}, Limits(2, 3), <<Loose>>),
    Request({Of({1}, Esm), Of({2}, Sloppy)}, {"t"}, Limits(2, 3), <<Torn>>),
    Request({Of({1}, Esm)}, {"t", "set"}, Limits(0, 3), <<Loose>>),
    Request({Of({1}, Misled)}, {"t"}, Limits(1, 2), <<Loose>>),
    Request({Of({1}, Misled)}, {"t", "set"}, Limits(2, 1), <<Loose>>),
    Request({Of({1}, Sloppy), Of({4}, Broken), Of({5}, Esm)}, {"t", "set"}, Limits(2, 3), <<>>),
    Request({Of({1, 2}, Esm), Of({3}, Large), Of({4}, Binary)}, {"t"}, Limits(2, 3), <<>>),
    Request({Of({1}, Esm), Of({3}, Sloppy)}, {"t"}, Limits(2, 3), <<>>),
    Request({Of({1, 4}, Esm), Of({2}, Esm)}, {"t"}, Limits(2, 3), <<>>),
    Request({Of({1}, Half), Of({2}, Half)}, {"t"}, Limits(2, 3), <<>>),
    Request({Of({1, 2}, Esm), Of({2}, Esm)}, {"t"}, Limits(2, 3), <<>>),
    Request({Of({1}, Esm), Of({2}, Esm), Of({3}, Esm), Of({4}, Esm)}, {"t"}, Limits(2, 3), <<>>)}
==============================================================================
