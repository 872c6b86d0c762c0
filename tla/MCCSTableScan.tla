--------------------------- MODULE MCCSTableScan ---------------------------
\* Column tables and their scans on small schemas.
EXTENDS CSTableScan

CONSTANT MaxRepeat

Leaf(id, repeated, optional) ==
    [id |-> id, repeated |-> repeated, optional |-> optional, fields |-> << >>]
Object(id, repeated, optional, fields) ==
    [id |-> id, repeated |-> repeated, optional |-> optional, fields |-> fields]

\* A user with queries and their results, as in the repository's test table;
\* two repeated fields side by side, one of them deeper; objects that may be
\* missing or empty, around a field that may not.
MCSchemas == [
    nested |-> <<Leaf("user", FALSE, TRUE),
                 Object("search", TRUE, FALSE,
                     <<Leaf("time", FALSE, TRUE),
                       Object("item", TRUE, FALSE, <<Leaf("position", FALSE, FALSE)>>)>>)>>,
    siblings |-> <<Object("group", TRUE, FALSE, <<Leaf("tag", TRUE, FALSE)>>),
                   Leaf("view", TRUE, FALSE)>>,
    optional |-> <<Leaf("id", FALSE, FALSE),
                   Object("attr", FALSE, TRUE,
                       <<Object("cart", FALSE, FALSE,
                             <<Leaf("value", FALSE, TRUE), Leaf("shop", FALSE, FALSE)>>)>>)>>]

\* All objects of a schema, with up to MaxRepeat children of a repeated field
\* and with required fields missing; a value is labelled by where it stands.
RECURSIVE Objects(_, _, _)
Objects(s, fields, path) ==
    IF fields = << >> THEN {EmptyObject[s]}
    ELSE LET f == Head(fields)
             Child(i) == IF IsLeaf(f) THEN {Append(path, i)}
                         ELSE Objects(s, f.fields, Append(path, i))
             Lists == {<< >>} \cup {<<x>> : x \in Child(1)} \cup
                      (IF f.repeated /\ MaxRepeat = 2
                       THEN {<<x, y>> : x \in Child(1), y \in Child(2)} ELSE {})
         IN {[o EXCEPT ![f.id] = l] : o \in Objects(s, Tail(fields), path), l \in Lists}

MCMessages == [s \in DOMAIN MCSchemas |->
    [n \in 1..MaxRecords |-> Objects(s, MCSchemas[s], <<n>>)]]

Select(columns_, constant) == {{c} : c \in columns_} \cup (IF constant THEN {{}} ELSE {})

MCQueries == [
    nested |-> {[select |-> Select({"user", "time"}, TRUE), filter |-> TRUE, where |-> {"position"}],
                [select |-> Select({"time", "position"}, FALSE), filter |-> FALSE, where |-> {}],
                [select |-> {{}}, filter |-> TRUE, where |-> {}]},
    siblings |-> {[select |-> Select({"tag", "view"}, TRUE), filter |-> FALSE, where |-> {}],
                  [select |-> Select({"tag"}, FALSE), filter |-> TRUE, where |-> {"view"}]},
    optional |-> {[select |-> Select({"value"}, TRUE), filter |-> TRUE, where |-> {"shop"}],
                  [select |-> {{"id", "value"}}, filter |-> FALSE, where |-> {}]}]
=============================================================================
