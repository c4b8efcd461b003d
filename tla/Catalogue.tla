------------------------------ MODULE Catalogue ------------------------------
(***************************************************************************)
(* Skill packages, and knowledge that is kept for tools: one request at a  *)
(* time, each with its checks, its one statement and (skills) its refresh. *)
(* Knowledge is kept under the slug of a tool and read with each call; the *)
(* tools are changed by ToolAdmin, reduced here to slug and is_active.     *)
(***************************************************************************)
EXTENDS Naturals, FiniteSets

CONSTANTS
  MaxSkills, MaxNotes, MaxBound,  \* bounds: rows; enabled bindings of a skill
  SkillSlug, Folder,    \* slugs; directories below skills_root_dir
  NoteTool, NoteSlug,   \* tools of the database and their slugs
  ScriptSlug,           \* those of them that the registry has
  NoItem                \* no row; key absent; a directory elsewhere

SkillId == 1..MaxSkills
NoteId == 1..MaxNotes

SkillRow == [slug : SkillSlug, source : Folder, active : BOOLEAN]
NoteRow == [slug : NoteSlug, active : BOOLEAN, of : SUBSET NoteTool]

ASSUME CatalogueAssumption ==
  /\ MaxSkills \in Nat /\ MaxNotes \in Nat /\ MaxBound \in Nat
  /\ ScriptSlug \subseteq NoteSlug
  /\ IsFiniteSet(NoteTool) /\ (NoteTool # {} => NoteSlug # {})
  /\ NoItem \notin SkillId \cup NoteId \cup SkillSlug \cup Folder \cup NoteSlug
  /\ NoItem \notin SkillRow \cup NoteRow

VARIABLES
  skill,      \* skill_packages: slug, source_path, is_active
  bound,      \* skill -> enabled bindings to the agent's node
  folders,    \* directories that exist
  offer,      \* skills the agent gets from the worker's snapshot
  revived,    \* skills made active again by a request that named no slug
  toolRow,    \* tools
  note,       \* tool_knowledge_nodes: slug, is_active; of: tools that had the
              \* slug when it was written
  everHad     \* slug -> tools that have ever been active with it

catalogueVars == <<skill, bound, folders, offer, revived, toolRow, note, everHad>>
skillVars == <<skill, bound, folders, offer, revived>>
noteVars == <<toolRow, note, everHad>>

CatalogueTypeOK ==
  /\ skill \in [SkillId -> SkillRow \cup {NoItem}]
  /\ bound \in [SkillId -> 0..MaxBound]
  /\ folders \subseteq Folder
  /\ offer \subseteq SkillId /\ revived \subseteq SkillId
  /\ toolRow \in [NoteTool -> [slug : NoteSlug, active : BOOLEAN]]
  /\ note \in [NoteId -> NoteRow \cup {NoItem}]
  /\ everHad \in [NoteSlug -> SUBSET NoteTool]

CatalogueInit ==
  /\ skill = [s \in SkillId |-> NoItem]
  /\ bound = [s \in SkillId |-> 0]
  /\ folders = {} /\ offer = {} /\ revived = {}
  /\ toolRow = [t \in NoteTool |-> [slug |-> CHOOSE s \in NoteSlug : TRUE,
                                    active |-> FALSE]]
  /\ note = [n \in NoteId |-> NoItem]
  /\ everHad = [s \in NoteSlug |-> {}]

Used(table) == {i \in DOMAIN table : table[i] # NoItem}
InUse(table) == {i \in Used(table) : table[i].active}
NextId(table, i) == i \in DOMAIN table /\ i = Cardinality(Used(table)) + 1

-----------------------------------------------------------------------------
(* Skills                                                                  *)

(* After the write the snapshot is rebuilt, or that raises.                *)
RefreshOffer ==
  offer' \in {offer, {s \in InUse(skill') : bound'[s] > 0}}

(* One of the active rows with the slug is compared with the row's own id. *)
SkillSlugFree(slug, s) ==
  LET holders == {o \in InUse(skill) : skill[o].slug = slug}
  IN holders = {} \/ s \in holders

(* The directory is made before the statement, which may raise.            *)
CreateSkill ==
  /\ \E s \in SkillId, slug \in SkillSlug, folder \in Folder :
       /\ NextId(skill, s) /\ SkillSlugFree(slug, NoItem)
       /\ folders' = folders \cup {folder}
       /\ skill' \in {skill, [skill EXCEPT ![s] =
            [slug |-> slug, source |-> folder, active |-> TRUE]]}
  /\ UNCHANGED <<bound, revived, noteVars>>
  /\ RefreshOffer

(* The row may be inactive.                                                *)
UpdateSkill ==
  /\ \E s \in Used(skill), slug \in SkillSlug \cup {NoItem},
        folder \in Folder \cup {NoItem}, on \in BOOLEAN :
       /\ slug # NoItem => SkillSlugFree(slug, s)
       /\ folders' = folders \cup ({folder} \cap Folder)
       /\ skill' = [skill EXCEPT
            ![s].slug = IF slug = NoItem THEN @ ELSE slug,
            ![s].source = IF folder = NoItem THEN @ ELSE folder,
            ![s].active = on]
       /\ revived' = IF slug = NoItem /\ on /\ ~skill[s].active
                     THEN revived \cup {s} ELSE revived
  /\ UNCHANGED <<bound, noteVars>>
  /\ RefreshOffer

DeactivateSkill ==
  /\ \E s \in InUse(skill) : skill' = [skill EXCEPT ![s].active = FALSE]
  /\ UNCHANGED <<bound, folders, revived, noteVars>>
  /\ RefreshOffer

BindSkill ==
  /\ \E s \in InUse(skill) :
       bound[s] < MaxBound /\ bound' = [bound EXCEPT ![s] = @ + 1]
  /\ UNCHANGED <<skill, folders, revived, noteVars>>
  /\ RefreshOffer

UnbindSkill ==
  /\ \E s \in SkillId : bound[s] > 0 /\ bound' = [bound EXCEPT ![s] = @ - 1]
  /\ UNCHANGED <<skill, folders, revived, noteVars>>
  /\ RefreshOffer

-----------------------------------------------------------------------------
(* Knowledge                                                               *)

Having(rows, slug) == {t \in NoteTool : rows[t].active /\ rows[t].slug = slug}

(* Of ToolAdmin it matters that no two active tools get the same slug.     *)
ChangeTool ==
  /\ \E t \in NoteTool, slug \in NoteSlug, on \in BOOLEAN :
       toolRow' = [toolRow EXCEPT ![t] = [slug |-> slug, active |-> on]]
  /\ \A slug \in NoteSlug : Cardinality(Having(toolRow', slug)) <= 1
  /\ everHad' = [slug \in NoteSlug |-> everHad[slug] \cup Having(toolRow', slug)]
  /\ UNCHANGED <<skillVars, note>>

KnownSlugAny(slug) == TRUE  \* mutant: _validate_tool_slug lets all pass
KnownSlug(slug) == slug \in ScriptSlug \/ Having(toolRow, slug) # {}

WriteNote(n, slug, on, of) ==
  /\ note' = [note EXCEPT ![n] = [slug |-> slug, active |-> on, of |-> of]]
  /\ UNCHANGED <<skillVars, toolRow, everHad>>

CreateNote == \E n \in NoteId, slug \in NoteSlug, on \in BOOLEAN :
  /\ NextId(note, n) /\ KnownSlug(slug)
  /\ WriteNote(n, slug, on, Having(toolRow, slug))

(* The row may be inactive, and without a slug in the payload its slug may *)
(* be nobody's by now.                                                     *)
UpdateNote == \E n \in Used(note), slug \in NoteSlug \cup {NoItem}, on \in BOOLEAN :
  IF slug = NoItem THEN WriteNote(n, note[n].slug, on, note[n].of)
  ELSE KnownSlug(slug) /\ WriteNote(n, slug, on, Having(toolRow, slug))

DeactivateNote == \E n \in InUse(note) :
  WriteNote(n, note[n].slug, FALSE, note[n].of)

SkillNext ==
  CreateSkill \/ UpdateSkill \/ DeactivateSkill \/ BindSkill \/ UnbindSkill
NoteNext == ChangeTool \/ CreateNote \/ UpdateNote \/ DeactivateNote

CatalogueNext == SkillNext \/ NoteNext

CatalogueSpec == CatalogueInit /\ [][CatalogueNext]_catalogueVars

-----------------------------------------------------------------------------
(* A slug means one thing.  Two active skills share one only if one of     *)
(* them was made active again by a request without the slug, and a skill   *)
(* that is offered has its directory.  What a call of a tool is given as   *)
(* its knowledge was written for that tool, unless its slug has been       *)
(* another tool's, too, or is a script's.                                  *)
SlugsMeanOne ==
  /\ \A s, o \in InUse(skill) : s # o /\ skill[s].slug = skill[o].slug =>
       {s, o} \cap revived # {}
  /\ \A s \in offer : skill[s].source \in folders
  /\ \A t \in NoteTool, n \in InUse(note) :
       toolRow[t].active /\ note[n].slug = toolRow[t].slug =>
         \/ t \in note[n].of
         \/ note[n].slug \in ScriptSlug
         \/ Cardinality(everHad[note[n].slug]) > 1
=============================================================================
