----------------------------- MODULE MCPlatform -----------------------------
(***************************************************************************)
(* Instance of Platform: the payloads of requests; modules of tools; for   *)
(* ToolParams an identifier in two spellings, its number, "id", and a      *)
(* parameter of another kind.                                              *)
(***************************************************************************)
EXTENDS Platform, TLC

CONSTANTS script1, unknown, d1, d2, slug1, slug2,
          item_id, itemId, item_number, shop, v1, v2,
          plain, failing, later

ById(i) == [id |-> i, slug |-> NoRow, on |-> TRUE]
BySlug(s, on) == [id |-> NoRow, slug |-> s, on |-> on]
ActionLists == {{}, {BySlug(script1, FALSE)},
                {ById(1), BySlug(script1, TRUE)}, {BySlug(unknown, TRUE), ById(2)}}

OneSlug == [d \in Source |-> slug1]
McpPayloads == {
  [slug |-> slug1, transport |-> "stdio", command |-> "npx"],
  [slug |-> slug2, transport |-> "remote", url |-> "url",
   metadata_json |-> [source |-> Null, other |-> TRUE]],
  [slug |-> slug1, transport |-> "stdio", local_source_path |-> d1],
  [transport |-> "remote"], [transport |-> "remote", url |-> ""],
  [transport |-> "stdio"], [transport |-> "stdio", command |-> ""],
  [working_directory |-> Outside],
  [command |-> Local, working_directory |-> d2]}

TwoOfOneSlug == [m \in 1..MaxModules |-> IF m = 2 THEN Script ELSE {script1}]

SnakeMap == [p \in Param |-> IF p = itemId THEN item_id ELSE p]
CamelMap == [p \in Param |-> IF p = item_id THEN itemId ELSE p]
NumberMap == [n \in IdNames |-> item_number]
Only(p, v) == [NoArgs EXCEPT ![p] = v]
ArgSet == {NoArgs} \cup {Only(p, v) : p \in Param, v \in Values}
            \cup {[Only(p, v1) EXCEPT ![q] = w] :
                    p \in Param, q \in Param, w \in {Blank, v2}}
StateSet == {NoArgs} \cup {Only(p, v) : p \in {item_id, item_number, shop},
                                        v \in {v2, Blank}}
NoMapping == [p \in {} |-> NoArg]
Mapped(p, f) == [q \in {p} |-> f]
ScriptSet ==
  [fields : {<<f, g>> : f \in {{}, {item_id}, {item_id, shop}},
                        g \in {{}, {shop}, {item_id}}},
   explicit : {<<e, NoMapping>> : e \in {NoMapping, Mapped(Id, item_id),
                                         Mapped(shop, item_id)}},
   column : {{}, {item_id}, {shop}, {itemId}, {item_id, shop}}]

Handlers == <<plain, failing, later>>

ClerkSymmetry == Permutations(Clerk)
=============================================================================
