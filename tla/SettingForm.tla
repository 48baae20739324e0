---------------------------- MODULE SettingForm ----------------------------
(***************************************************************************)
(* The pages for the options of the system (web/src/components/            *)
(* SystemSetting.jsx, OtherSetting.jsx) and the options of the server      *)
(* (controller/option.go).  A switch is sent at once.  The text fields of  *)
(* a group are sent by its button, one after the other, those that differ  *)
(* from what the page was opened with; the page has the values it compared *)
(* and sends from the render in which the button was pressed.              *)
(***************************************************************************)
EXTENDS Naturals, SequencesExt

CONSTANTS
    Switches,       \* options that are "true" or "false"
    Groups,         \* the text fields of each button, in their order
    Hidden,         \* options the server does not tell: ...Token..., ...Secret...
    Required,       \* options that are not sent blank
    Always,         \* options that are sent without a comparison
    Addresses,      \* options that are sent without a trailing slash
    Texts,          \* what is typed
    MaxTyped        \* bound: changes of the text fields

VARIABLES
    options,        \* the options of the server
    values,         \* inputs: what the page shows
    originInputs,   \* what the page was opened with
    loading,
    queue,          \* what is still to be sent: keys and values, by their place in the group
    answer,         \* the answer to that one: "none", "ok", "failed"
    typed

\* History: keys typed into since they were submitted, or not saved.
VARIABLE unsaved

Fields == UNION {ToSet(Groups[g]) : g \in DOMAIN Groups}
Keys == Switches \cup Fields
Absent == "undefined"

\* GetOptions leaves the secret ones out; getOptions takes what is there.
GetOptions(opts) == [k \in Keys |-> IF k \in Hidden THEN Absent ELSE opts[k]]

\* A page is opened and has got the options.
Open ==
    /\ values = GetOptions(options)
    /\ originInputs = values
    /\ loading = FALSE /\ queue = << >> /\ answer = "none" /\ typed = 0
    /\ unsaved = {}

\* handleInputChange of a text field; the overlay does not keep keys away.
Type(k, v) ==
    /\ typed < MaxTyped
    /\ typed' = typed + 1
    /\ values' = [values EXCEPT ![k] = v]
    /\ unsaved' = unsaved \cup {k}
    /\ UNCHANGED <<options, originInputs, loading, queue, answer>>

\* updateOption of a switch: the other value.
Toggle(k) ==
    /\ ~loading
    /\ loading' = TRUE
    /\ queue' = <<[key |-> k, value |-> IF values[k] = "true" THEN "false" ELSE "true"]>>
    /\ UNCHANGED <<options, values, originInputs, answer, typed, unsaved>>

\* Mutant: only what is as it was is sent.
ToSendUnchanged(k) == k \in Always \/ originInputs[k] = values[k]

\* The conditions of submitSMTP, submitWeChat, submitGitHubOAuth, submitTurnstile.
ToSend(k) == k \in Always \/ (originInputs[k] # values[k] /\ (k \in Required => values[k] # ""))

\* removeTrailingSlash, for the addresses
Normal(k, v) == IF k \in Addresses /\ v = "u/" THEN "u" ELSE v

\* The button of a group; the overlay keeps it from being pressed while loading.
SubmitGroup(g) ==
    /\ ~loading
    /\ LET sent == {i \in DOMAIN Groups[g] : ToSend(Groups[g][i])}
       IN  /\ queue' = [i \in sent |->
                           [key |-> Groups[g][i], value |-> Normal(Groups[g][i], values[Groups[g][i]])]]
           /\ loading' = (sent # {})
    /\ unsaved' = unsaved \ ToSet(Groups[g])
    /\ UNCHANGED <<options, values, originInputs, answer, typed>>

\* The request under way is the first of those left.
Left == DOMAIN queue
UnderWay == queue[Min(Left)]

\* UpdateOption on the server refuses some switches, requests get lost, and so
\* do answers.
ServeOption ==
    /\ Left # {} /\ answer = "none"
    /\ \/ /\ options' = [options EXCEPT ![UnderWay.key] = UnderWay.value]
          /\ answer' \in {"ok", "failed"}
       \/ UNCHANGED options /\ answer' = "failed"
    /\ UNCHANGED <<values, originInputs, loading, queue, typed, unsaved>>

\* The rest of updateOption, and the next one of the group, if there is one.
OptionAnswered ==
    /\ answer # "none"
    /\ values' = IF answer = "ok" THEN [values EXCEPT ![UnderWay.key] = UnderWay.value] ELSE values
    /\ unsaved' = IF answer = "ok" THEN unsaved \ {UnderWay.key} ELSE unsaved \cup {UnderWay.key}
    /\ queue' = Restrict(queue, Left \ {Min(Left)})
    /\ loading' = (Left \ {Min(Left)} # {})
    /\ answer' = "none"
    /\ UNCHANGED <<options, originInputs, typed>>

SettingAct ==
    \/ \E k \in Fields, v \in Texts : Type(k, v)
    \/ \E k \in Switches : Toggle(k)
    \/ \E g \in DOMAIN Groups : SubmitGroup(g)
    \/ ServeOption \/ OptionAnswered

----------------------------------------------------------------------------

\* Once a page is at rest, whatever was typed while its buttons worked: what it
\* shows, and was submitted without a failure, is what the server has; but for
\* the value the page was opened with, which a button never sends again, and a
\* secret that was blanked.
ShownIsSaved ==
    Left = {} =>
        \A k \in Keys \ unsaved :
            \/ values[k] = options[k]
            \/ k \notin Always /\ values[k] = originInputs[k]
            \/ k \in Required /\ values[k] = ""
=============================================================================
