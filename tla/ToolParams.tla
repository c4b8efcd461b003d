----------------------------- MODULE ToolParams -----------------------------
(***************************************************************************)
(* What the actions of a script tool are called with: the parameters that  *)
(* the model is offered, the values that are found for them, and which of  *)
(* the fields of each action's Input they fill; in a run, and in the       *)
(* administrators' test of the tool, which does it once more by itself.    *)
(***************************************************************************)
EXTENDS Naturals, FiniteSets

CONSTANTS
  Param,      \* names of parameters and fields
  Snake, Camel,  \* a name in the other spelling
  IdNames,    \* those in snake case that end in _id
  NumberOf,   \* the one in _number for each of them
  Id,         \* "id"
  Scripts,    \* configurations of a tool, see ScriptTools
  Values, Blank,  \* what arguments may be; Blank: ""
  Args, States,   \* what a call gives, and what session_state has, by name
  NoArg       \* None, or no such key

(* The fields and constructor_params of the first and the second action,   *)
(* and the names in the column tools.parameters.                           *)
Mappings == UNION {[names -> Param] : names \in SUBSET Param}
ScriptTools == [fields : [1..2 -> SUBSET Param], explicit : [1..2 -> Mappings],
                column : SUBSET Param]

ASSUME ToolParamsAssumption ==
  /\ Snake \in [Param -> Param] /\ Camel \in [Param -> Param]
  /\ IdNames \subseteq Param /\ NumberOf \in [IdNames -> Param] /\ Id \in Param
  /\ Blank \in Values /\ NoArg \notin Values \cup Param
  /\ Scripts \subseteq ScriptTools /\ Scripts # {}
  /\ \A f \in Args \cup States : DOMAIN f = Param

VARIABLES script, args, argState, argStep
toolParamsVars == <<script, args, argState, argStep>>

AnyScript == CHOOSE t \in Scripts : TRUE
NoArgs == [p \in Param |-> NoArg]

ToolParamsTypeOK ==
  /\ script \in Scripts /\ args \in Args \cup {NoArgs}
  /\ argState \in States \cup {NoArgs} /\ argStep \in {"asked", "called"}

ToolParamsInit ==
  /\ script = AnyScript
  /\ args = NoArgs /\ argState = NoArgs
  /\ argStep = "asked"

CallScript ==
  /\ argStep = "asked" /\ argStep' = "called"
  /\ script' \in Scripts /\ args' \in Args /\ argState' \in States

ToolParamsNext == CallScript

ToolParamsSpec == ToolParamsInit /\ [][ToolParamsNext]_toolParamsVars

-----------------------------------------------------------------------------
(* Parameters and fields                                                   *)

(* The first action that has fields gives the parameters.                  *)
Effective(t) == IF t.fields[1] # {} THEN t.fields[1] ELSE t.fields[2]

Declared(t) == Effective(t) \cup DOMAIN t.explicit[1] \cup DOMAIN t.explicit[2]

(* _iter_service_input_aliases: the parameter for a field among names.     *)
AliasFor(field, names) ==
  IF names = {} \/ field \in names THEN field
  ELSE IF Camel[field] \in names THEN Camel[field] ELSE NoArg

(* Names that constructor_params give a parameter for.                     *)
Named(t, i) == {t.explicit[i][p] : p \in DOMAIN t.explicit[i]}

(* Fields that get their value from a parameter of (nearly) their name.    *)
Inferred(t, i, names) ==
  {f \in t.fields[i] \ Named(t, i) :
     AliasFor(f, names) \notin DOMAIN t.explicit[i] \cup {NoArg}}

(* Fields or other names of the constructor -> parameter.  Several         *)
(* parameters for one name are left out (the last one in the row wins).    *)
Sources(t, i, names) ==
  [f \in Named(t, i) \cup Inferred(t, i, names) |->
     IF f \in Named(t, i)
     THEN CHOOSE p \in DOMAIN t.explicit[i] : t.explicit[i][p] = f
     ELSE AliasFor(f, names)]

-----------------------------------------------------------------------------
(* Values                                                                  *)

Spelled(p) == <<p, Snake[p], Camel[p]>>

(* The first of the three spellings with a value that is not blank.        *)
Find3(p, from, blank) ==
  LET s == Spelled(p)  found == {n \in 1..3 : from[s[n]] \notin blank}
  IN IF found = {} THEN NoArg ELSE from[s[CHOOSE n \in found : \A m \in found : n <= m]]

Or(v, w) == IF v # NoArg THEN v ELSE w

(* ToolParameterResolver.resolve                                           *)
ResolveParam(p, declared) ==
  LET s == Snake[p]
      ids == IdNames \cap {Snake[d] : d \in declared}
      generic == IF s \in IdNames /\ ids = {s} /\ Id \notin {Snake[d] : d \in declared}
                 THEN args[Id] ELSE NoArg
      number == IF s \in IdNames
                THEN Or(args[NumberOf[s]], argState[NumberOf[s]]) ELSE NoArg
  IN Or(Find3(p, args, {NoArg}), Or(Find3(p, argState, {NoArg}), Or(generic, number)))

(* ToolTestService._read_param_value; the mutant forgets session_state.     *)
ReadParamGiven(p) == Find3(p, args, {NoArg, Blank})
ReadParam(p) == Or(Find3(p, args, {NoArg, Blank}), Find3(p, argState, {NoArg, Blank}))

(* What the constructor of action i is called with.                        *)
RunArgs(t, i) ==
  LET sources == Sources(t, i, Effective(t))
  IN [f \in DOMAIN sources |-> ResolveParam(sources[f], Declared(t))]

TestArgs(t, i) ==
  LET sources == Sources(t, i, t.column)
  IN [f \in DOMAIN sources |-> ReadParam(sources[f])]

-----------------------------------------------------------------------------
(* A value that the model gives for a parameter it was offered arrives in  *)
(* every action that has the field, unless the action's constructor_params *)
(* say otherwise; another spelling, the id and the number come after it.   *)
ValuesArrive ==
  argStep = "called" => \A i \in 1..2, p \in Effective(script) :
    /\ args[p] # NoArg /\ p \in script.fields[i]
    /\ p \notin DOMAIN script.explicit[i]
    /\ p \notin Named(script, i)
    => p \in DOMAIN RunArgs(script, i) /\ RunArgs(script, i)[p] = args[p]

(* The test of a tool calls its actions as a run would, if tools.parameters*)
(* has the parameters of the run (or the tool has one action and it none), *)
(* and no value is blank or found as id or number.                         *)
TestMirrorsRun ==
  /\ argStep = "called"
  /\ \/ script.column = Effective(script)
     \/ script.column = {} /\ script.fields[2] \subseteq script.fields[1]
  /\ \A p \in Param : Blank \notin {args[p], argState[p]}
  => \A i \in 1..2 :
       LET run == RunArgs(script, i)  test == TestArgs(script, i) IN
       /\ DOMAIN run = DOMAIN test
       /\ \A f \in DOMAIN run : test[f] \in {NoArg, run[f]}
       /\ \A f \in DOMAIN run : test[f] = NoArg =>
            run[f] = NoArg \/ \E n \in IdNames :
              run[f] \in {args[Id], args[NumberOf[n]], argState[NumberOf[n]]}

(* A run and the administrators' test give the actions the same values,    *)
(* and no value that was given gets lost on the way.                       *)
ActionsGetTheirValues == ValuesArrive /\ TestMirrorsRun
=============================================================================
