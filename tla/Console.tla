------------------------------ MODULE Console ------------------------------
(***************************************************************************)
(* A tab of the console: one of its pages, with the part of the server it  *)
(* talks to.  The tables (AdminTable) can be left and entered again; the   *)
(* forms (EditForms) are opened to create or to edit; the settings         *)
(* (SettingForm) are opened once.                                          *)
(***************************************************************************)
EXTENDS Naturals, Sequences, FiniteSets

CONSTANTS
    ItemsPerPage, Matches, MaxId, MaxCalls,                     \* AdminTable
    Types, Lists, Words, MaxEdits, MaxSubmits,                  \* EditForms
    Switches, Groups, Hidden, Required, Always, Addresses, Texts, MaxTyped,    \* SettingForm
    InitialRows, InitialId, InitialItems, InitialOptions

VARIABLES
    tab,        \* the page in the tab: a table, a form or the settings
    rows, lastId, arrays, current, deleted, shown, calls, called, mounted, gone, mixed, twice, unsure,
    saved, form, inputs, jsonMode, posts, edits, submits, settled,
    options, values, originInputs, loading, queue, answer, typed, unsaved

T == INSTANCE AdminTable WITH byObject <- (tab = "users")
F == INSTANCE EditForms
S == INSTANCE SettingForm

tableVars == <<rows, lastId, arrays, current, deleted, shown, calls, called, mounted, gone, mixed, twice, unsure>>
formVars == <<saved, form, inputs, jsonMode, posts, edits, submits, settled>>
settingVars == <<options, values, originInputs, loading, queue, answer, typed, unsaved>>
vars == <<tab, tableVars, formVars, settingVars>>

Kinds == {"channel", "webhook", "message", "user", "own", "push"}

\* What is typed into the fields with separators, and what was saved earlier:
\* rows as the forms save them, with a secret or a password.
ASSUME FormsAssumption ==
    /\ \A list \in Lists : list \in Seq(F!ToSet(list))
    /\ \A kind \in Kinds : \A item \in InitialItems[kind] :
           F!Row(kind, item) /\ F!Promised(kind, item) /\ F!HasSecret(kind, item)

\* The rows have ids and a status; a page of a table holds some of them.
ASSUME TablesAssumption ==
    /\ IsFiniteSet(DOMAIN InitialRows) /\ InitialId \in Nat /\ DOMAIN InitialRows \subseteq 0 .. InitialId
    /\ InitialRows \in [DOMAIN InitialRows -> [status : Nat]]
    /\ ItemsPerPage \in Nat \ {0}

\* Every option has a row, and none that is always sent is kept from the page.
ASSUME SettingsAssumption ==
    /\ S!Keys \subseteq DOMAIN InitialOptions /\ Hidden \cap Always = {}
    /\ \A g \in DOMAIN Groups : Groups[g] \in Seq(S!ToSet(Groups[g]))

Init ==
    /\ rows = InitialRows /\ lastId = InitialId /\ T!Absent
    /\ options = InitialOptions /\ S!Open
    /\ \/ tab \in {"channels", "users"} /\ saved = << >> /\ F!Open("channel", 0)
       \/ tab = "setting" /\ saved = << >> /\ F!Open("channel", 0)
       \/ /\ tab = "form"
          /\ \E kind \in Kinds : \E item \in InitialItems[kind] :
                 saved = <<item>> /\ ((kind \notin {"own", "push"} /\ F!Open(kind, 0)) \/ F!Open(kind, 1))

Next ==
    \/ tab \in {"channels", "users"} /\ (T!Mount \/ T!Unmount \/ T!Act) /\ UNCHANGED <<tab, formVars, settingVars>>
    \/ tab = "form" /\ F!FormAct /\ UNCHANGED <<tab, tableVars, settingVars>>
    \/ tab = "setting" /\ S!SettingAct /\ UNCHANGED <<tab, tableVars, formVars>>

Spec == Init /\ [][Next]_vars

----------------------------------------------------------------------------

\* AdminTable!TableTellsTruth for the table of this tab.
TableTellsTruth == T!TableTellsTruth

\* EditForms!SavedIsUsable for the form of this tab.
SavedIsUsable == F!SavedIsUsable

\* EditForms!ReopenedIsSame for the form of this tab.
ReopenedIsSame == F!ReopenedIsSame

\* SettingForm!ShownIsSaved for the settings of this tab.
ShownIsSaved == S!ShownIsSaved
=============================================================================
