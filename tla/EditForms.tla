----------------------------- MODULE EditForms -----------------------------
(***************************************************************************)
(* The forms for a channel, a webhook, a message and a user (web/src/pages *)
(* /Channel/EditChannel.jsx, Webhook/EditWebhook.jsx, Message/             *)
(* EditMessage.jsx, User/AddUser.jsx, User/EditUser.jsx, and web/src/      *)
(* components/PushSetting.jsx for a user's own token and channel), and     *)
(* what the server does with what they send (controller/channel.go,        *)
(* controller/webhook.go, controller/user.go).  A form without an id       *)
(* creates; one with an id first loads what it edits.  The button may be   *)
(* pressed again while an earlier press is still under way.                *)
(*                                                                         *)
(* A text with separators is the sequence of its parts, so that "" is      *)
(* <<"">>; a property that an object does not have reads as "undefined".   *)
(* Names are there.  The two rules of a webhook are one text: "object" if  *)
(* they are what TriggerWebhook unmarshals, "json" if they can be parsed   *)
(* but are something else ([], or an extract rule {"title": 1}), "text" if *)
(* one of them cannot.                                                     *)
(***************************************************************************)
EXTENDS Naturals, SequencesExt

CONSTANTS
    Types,          \* the types of channel that are tried
    Lists,          \* what is typed into a field with separators
    Words,          \* what is typed into the other fields, without separators
    MaxEdits,       \* bound: changes of the inputs
    MaxSubmits      \* bound: presses of the button

VARIABLES
    saved,          \* what is edited, as the server has it, and what is created
    form,           \* which form it is, for which id, and whether it is loading
    inputs,
    jsonMode,       \* of the form for messages
    posts,          \* requests, and answers that are not applied yet
    edits,
    submits

\* History: what the form shows was sent by its last press, alone, with success.
VARIABLE settled

Undefined == "undefined"
Blank == <<"">>

----------------------------------------------------------------------------
(* Channels. *)

ChannelFields == {"type", "app_id", "account_id", "url", "secret", "other", "corp_id", "agent_id"}
Columns == ChannelFields \ {"corp_id", "agent_id"}
WithSeparators == {"app_id", "account_id"}

NewChannel ==
    [f \in ChannelFields |-> CASE f = "type" -> "none" [] f \in WithSeparators -> Blank [] OTHER -> ""]

\* renderChannelForm: what can be typed into depends on the type.
FieldsOf(type) ==
    CASE type = "test" -> {"app_id", "secret", "other", "account_id"}
      [] type = "tencent_alarm" -> {"app_id", "secret", "account_id", "other"}
      [] type = "corp_app" -> {"corp_id", "agent_id", "secret", "account_id", "other"}
      [] type \in {"corp", "discord"} -> {"url"}
      [] type \in {"lark", "ding", "bark"} -> {"url", "secret"}
      [] type = "client" -> {"secret"}
      [] type = "telegram" -> {"secret", "account_id"}
      [] type = "one_bot" -> {"url", "secret", "account_id"}
      [] type = "group" -> {"app_id", "account_id"}
      [] type = "lark_app" -> {"app_id", "secret", "account_id"}
      [] type = "custom" -> {"url", "other"}
      [] OTHER -> {}

PartOr(parts, i) == IF i \in DOMAIN parts THEN parts[i] ELSE Undefined

\* loadChannel: app_id of a corp_app is split.
LoadChannel(data) ==
    [f \in ChannelFields |->
        CASE f \in Columns -> data[f]
          [] f = "corp_id" -> IF data["type"] = "corp_app" THEN PartOr(data["app_id"], 1) ELSE Undefined
          [] f = "agent_id" -> IF data["type"] = "corp_app" THEN PartOr(data["app_id"], 2) ELSE Undefined]

DayApp == "https://api.day.app"
WithoutSlash(url) == IF url = "u/" THEN "u" ELSE url

Blanks(n) == [i \in 1 .. n |-> ""]

\* The targets of a group: as many as it has channels, if none is given.
Targets(in) == IF in["account_id"] = Blank THEN Blanks(Len(in["app_id"])) ELSE in["account_id"]

\* submit sends nothing if this does not hold; there is no button for email.
ChannelValid(in) ==
    /\ in["type"] # "email"
    /\ in["type"] = "group" => in["account_id"] = Blank \/ Len(in["app_id"]) = Len(in["account_id"])
    /\ in["type"] = "custom" => in["other"] = "json"

\* localInputs
LocalChannel(in) ==
    CASE in["type"] = "corp_app" -> [in EXCEPT !["app_id"] = <<in["corp_id"], in["agent_id"]>>]
      [] in["type"] = "bark" /\ in["url"] = "" -> [in EXCEPT !["url"] = DayApp]
      [] in["type"] = "one_bot" -> [in EXCEPT !["url"] = WithoutSlash(@)]
      [] in["type"] = "group" -> [in EXCEPT !["account_id"] = Targets(in)]
      [] OTHER -> in

\* GetChannel: everything but the secret.
GetChannel(row) == [row EXCEPT !["secret"] = ""]

AddChannel(body) == [f \in Columns |-> body[f]]

\* A secret that is left blank stays what it was.
UpdateChannel(row, body) ==
    [f \in Columns |-> IF f = "secret" /\ body[f] = "" THEN row[f] ELSE body[f]]

----------------------------------------------------------------------------
(* Webhooks, messages and users. *)

DefaultPreScript == "default script"

NewWebhook ==
    [channel |-> "default", rules |-> "object", pre_script_enabled |-> FALSE, pre_script |-> DefaultPreScript]

LoadWebhook(data) ==
    [data EXCEPT !.channel = IF @ = "" THEN "default" ELSE @,
                 !.pre_script = IF @ = "" THEN DefaultPreScript ELSE @]

\* helpers/utils.js: verifyJSON
VerifyJSON(rules) == rules \in {"object", "json"}

WebhookValid(in) == VerifyJSON(in.rules) /\ (in.pre_script_enabled => in.pre_script # "")

LocalWebhook(in) == [in EXCEPT !.channel = IF @ = "default" THEN "" ELSE @]

NewMessage == [description |-> "", content |-> "", msg_type |-> ""]

MessageValid(in) ==
    /\ in.description # "" \/ in.content # ""
    /\ jsonMode => in.content = "object"

\* A user who is created, edited by an administrator ("user"), edits itself
\* ("own"), or sets its token and channel ("push").
Users == {"user", "own", "push"}
NewUser == [username |-> "", password |-> "", token |-> "", channel |-> ""]

\* A token that is blank on the page is one space on the server.
NoToken == " "

\* helpers/loader.js: loadUser
LoadPush(data) ==
    [data EXCEPT !.channel = IF @ = "" THEN "email" ELSE @, !.token = IF @ = NoToken THEN "" ELSE @]

\* Mutant: a blank token is sent as it is.
LocalPushBlank(in) == [in EXCEPT !.username = "", !.password = ""]

LocalPush(in) ==
    [in EXCEPT !.username = "", !.password = "", !.token = IF @ = "" THEN NoToken ELSE @]

UserValid(in) == form.id = 0 => in.username # "" /\ in.password # ""

\* GetUserById without the password.
GetUser(row) == [row EXCEPT !.password = ""]

\* UpdateUser writes the name and the password, UpdateSelf the others, too;
\* what is blank is not written.
UpdateUser(kind, row, body) ==
    [f \in DOMAIN row |->
        IF body[f] = "" \/ (kind = "user" /\ f \notin {"username", "password"}) THEN row[f] ELSE body[f]]

CreateUser(body) == [NewUser EXCEPT !.username = body.username, !.password = body.password]

----------------------------------------------------------------------------
(* Each form, by its kind. *)

Origin(kind) ==
    CASE kind = "channel" -> NewChannel [] kind = "webhook" -> NewWebhook
      [] kind = "message" -> NewMessage [] kind \in Users -> NewUser

Loaded(kind, data) ==
    CASE kind = "channel" -> LoadChannel(data) [] kind = "webhook" -> LoadWebhook(data)
      [] kind = "push" -> LoadPush(data) [] OTHER -> data

Valid(kind, in) ==
    CASE kind = "channel" -> ChannelValid(in) [] kind = "webhook" -> WebhookValid(in)
      [] kind = "message" -> MessageValid(in) [] kind \in Users -> UserValid(in)

LocalInputs(kind, in) ==
    CASE kind = "channel" -> LocalChannel(in) [] kind = "webhook" -> LocalWebhook(in)
      [] kind = "push" -> LocalPush(in) [] OTHER -> in

\* On the server: what is read, created and updated.
Read(kind, row) ==
    CASE kind = "channel" -> GetChannel(row) [] kind \in Users -> GetUser(row) [] OTHER -> row

Created(kind, body) ==
    CASE kind = "channel" -> AddChannel(body) [] kind \in Users -> CreateUser(body) [] OTHER -> body

Updated(kind, row, body) ==
    CASE kind = "channel" -> UpdateChannel(row, body) [] kind \in Users -> UpdateUser(kind, row, body)
      [] kind = "webhook" -> body

Ask(n, op) == [n |-> n, op |-> op, body |-> << >>, done |-> FALSE, ok |-> FALSE]
Save(n, body) == [n |-> n, op |-> "save", body |-> body, alone |-> posts = {}, done |-> FALSE, ok |-> FALSE]

\* A form is opened: to create, or for what is saved under the id 1.
Open(kind, id) ==
    /\ form = [kind |-> kind, id |-> id, loading |-> id # 0]
    /\ inputs = Origin(kind)
    /\ jsonMode = FALSE
    /\ posts = IF id = 0 THEN {} ELSE {Ask(0, "get")}
    /\ edits = 0 /\ submits = 0 /\ settled = FALSE

SetInputs(in) ==
    /\ ~form.loading /\ edits < MaxEdits
    /\ inputs' = in
    /\ edits' = edits + 1
    /\ settled' = FALSE
    /\ UNCHANGED <<saved, form, posts, submits>>

\* handleInputChange and handleSelectChange of the form for channels.
EditChannel ==
    /\ form.kind = "channel"
    /\ \/ \E t \in Types : SetInputs([inputs EXCEPT !["type"] = t])
       \/ \E f \in FieldsOf(inputs["type"]) :
             \E v \in (CASE f \in WithSeparators -> Lists [] f = "url" -> {"u", "u/"}
                         [] f = "other" -> {"json", "text"} [] OTHER -> Words) :
                 SetInputs([inputs EXCEPT ![f] = v])
    /\ UNCHANGED jsonMode

\* The button of the type telegram that looks for a chat.
GetTelegramChatId ==
    /\ form.kind = "channel" /\ inputs["type"] = "telegram"
    /\ ~form.loading /\ edits < MaxEdits
    /\ edits' = edits + 1
    /\ posts' = posts \cup {Ask(edits', "chat")}
    /\ UNCHANGED <<saved, form, inputs, jsonMode, submits, settled>>

EditWebhook ==
    /\ form.kind = "webhook"
    /\ \/ \E c \in Words \cup {"default"} : SetInputs([inputs EXCEPT !.channel = c])
       \/ \E r \in {"object", "json", "text"} : SetInputs([inputs EXCEPT !.rules = r])
       \/ \E e \in BOOLEAN : SetInputs([inputs EXCEPT !.pre_script_enabled = e])
       \/ \E p \in {"", "script"} : SetInputs([inputs EXCEPT !.pre_script = p])
    /\ UNCHANGED jsonMode

\* Typing, and handleJsonModeChange.
EditMessage ==
    /\ form.kind = "message"
    /\ \/ /\ \E c \in {"", "object", "text"} : SetInputs([inputs EXCEPT !.content = c])
          /\ UNCHANGED jsonMode
       \/ SetInputs([inputs EXCEPT !.description = "d"]) /\ UNCHANGED jsonMode
       \/ \E checked \in BOOLEAN :
             /\ SetInputs([inputs EXCEPT !.msg_type =
                              IF ~checked THEN "" ELSE IF @ = "" THEN "interactive" ELSE @])
             /\ jsonMode' = checked

\* The forms of users, each with its own fields.
EditUser ==
    /\ form.kind \in Users
    /\ \E f \in (IF form.kind = "push" THEN {"token", "channel"} ELSE {"username", "password"}), v \in Words :
           SetInputs([inputs EXCEPT ![f] = v])
    /\ UNCHANGED jsonMode

\* submit and send, up to their await.
Submit ==
    /\ ~form.loading /\ submits < MaxSubmits
    /\ Valid(form.kind, inputs)
    /\ submits' = submits + 1
    /\ posts' = posts \cup {Save(submits + 1, LocalInputs(form.kind, inputs))}
    /\ settled' = FALSE
    /\ UNCHANGED <<saved, form, inputs, jsonMode, edits>>

Answer(q, ok, body) == posts' = (posts \ {q}) \cup {[q EXCEPT !.done = TRUE, !.ok = ok, !.body = body]}

\* The answer to a save may be lost, which API makes a failure.
Serve(q) ==
    /\ ~q.done
    /\ \/ /\ q.op = "get"
          /\ Answer(q, TRUE, Read(form.kind, saved[1]))
          /\ UNCHANGED saved
       \/ q.op = "chat" /\ Answer(q, TRUE, << >>) /\ UNCHANGED saved
       \/ /\ q.op = "save" /\ form.id # 0 /\ form.kind # "message"
          /\ saved' = [saved EXCEPT ![1] = Updated(form.kind, @, q.body)]
          /\ \E ok \in BOOLEAN : Answer(q, ok, q.body)
       \/ /\ q.op = "save" /\ (form.id = 0 \/ form.kind = "message")
          /\ saved' = Append(saved, Created(form.kind, q.body))
          /\ \E ok \in BOOLEAN : Answer(q, ok, q.body)
    /\ UNCHANGED <<form, inputs, jsonMode, edits, submits, settled>>

\* Lost, or refused: the name is taken, the user may not.
Refuse(q) ==
    /\ ~q.done
    /\ Answer(q, FALSE, << >>)
    /\ UNCHANGED <<saved, form, inputs, jsonMode, edits, submits, settled>>

\* Mutant: the mode is left as it is.
JsonModeAfterLoadKept(data) == jsonMode

JsonModeAfterLoad(data) == form.kind = "message" /\ data.msg_type # ""

LoadAnswered(q) ==
    /\ q.op = "get" /\ q.done
    /\ posts' = posts \ {q}
    /\ form' = [form EXCEPT !.loading = FALSE]
    /\ IF q.ok
       THEN inputs' = Loaded(form.kind, q.body) /\ jsonMode' = JsonModeAfterLoad(q.body)
       ELSE UNCHANGED <<inputs, jsonMode>>
    /\ UNCHANGED <<saved, edits, submits, settled>>

\* The answer to getTelegramChatId, whatever the type is by now.
ChatIdAnswered(q) ==
    /\ q.op = "chat" /\ q.done
    /\ posts' = posts \ {q}
    /\ inputs' = IF q.ok THEN [inputs EXCEPT !["account_id"] = <<"id">>] ELSE inputs
    /\ settled' = FALSE
    /\ UNCHANGED <<saved, form, jsonMode, edits, submits>>

\* A form that creates is emptied after it has.
SaveAnswered(q) ==
    /\ q.op = "save" /\ q.done
    /\ posts' = posts \ {q}
    /\ IF q.ok /\ form.id = 0
       THEN inputs' = Origin(form.kind) /\ jsonMode' = FALSE
       ELSE UNCHANGED <<inputs, jsonMode>>
    /\ settled' = (/\ q.ok /\ form.id # 0
                   /\ q.alone /\ q.n = submits /\ q.body = LocalInputs(form.kind, inputs))
    /\ UNCHANGED <<saved, form, edits, submits>>

FormAct ==
    \/ EditChannel \/ EditWebhook \/ EditMessage \/ EditUser \/ GetTelegramChatId \/ Submit
    \/ \E q \in posts : Serve(q) \/ Refuse(q) \/ LoadAnswered(q) \/ ChatIdAnswered(q) \/ SaveAnswered(q)

----------------------------------------------------------------------------

\* What SendGroupMessage, parseWechatCorpAccountAppId, TriggerWebhook and the
\* senders of structured messages ask of what is saved.
Usable(kind, item) ==
    CASE kind = "channel" ->
            /\ item["type"] = "group" => Len(item["app_id"]) = Len(item["account_id"])
            /\ item["type"] = "corp_app" => Len(item["app_id"]) = 2
            /\ item["type"] = "custom" => item["other"] = "json"
      [] kind = "webhook" -> item.channel # "default" /\ item.rules = "object"
      [] kind = "message" -> item.msg_type # "" => item.content = "object"
      [] kind \in Users -> item.username # ""

\* The exception: rules that the form for webhooks has found to be JSON, which
\* is all it asks, and TriggerWebhook cannot unmarshal.
OtherJson(kind, item) == kind = "webhook" /\ item.channel # "default" /\ item.rules = "json"

Promised(kind, item) == Usable(kind, item) \/ OtherJson(kind, item)

HasSecret(kind, item) ==
    /\ kind = "channel" => item["secret"] # ""
    /\ kind \in Users => item.password # ""

\* A form never knows the secret of a channel or the password of a user; a row
\* keeps it unless another one is typed.
SecretKept ==
    form.id # 0 \/ form.kind \in Users => HasSecret(form.kind, saved[1])

\* The columns of the tables of the server.
ColumnsOf(kind) ==
    CASE kind = "channel" -> Columns
      [] kind = "webhook" -> {"channel", "rules", "pre_script_enabled", "pre_script"}
      [] kind = "message" -> {"description", "content", "msg_type"}
      [] kind \in Users -> {"username", "password", "token", "channel"}

Row(kind, item) ==
    /\ DOMAIN item = ColumnsOf(kind)
    /\ kind = "channel" => \A f \in WithSeparators : item[f] \in Seq(ToSet(item[f]))

\* Whatever is typed, whatever type is chosen on the way, however often the
\* button is pressed and whichever answer fails or comes late, what the forms
\* save is what the server code that uses it accepts, and no save blanks a
\* secret (submit of the forms, UpdateChannel, UpdateUser, UpdateSelf).  Of the
\* rules of a webhook only that they are JSON is promised: [] is saved, and
\* every trigger of that webhook fails (EditWebhook.jsx, TriggerWebhook).
SavedIsUsable == SecretKept /\ \A i \in DOMAIN saved : Promised(form.kind, saved[i])

\* The fields that are compared, and of those the ones that are not written blank.
Kept(kind) ==
    CASE kind = "channel" -> Columns \ {"secret"}
      [] kind = "webhook" -> {"channel", "rules", "pre_script_enabled", "pre_script"}
      [] kind \in {"user", "own"} -> {"username"}
      [] kind = "push" -> {"token", "channel"}
      [] OTHER -> {}
Skipped == {"username", "channel", "pre_script"}

\* After a press that was answered with success, and had no other beside it,
\* opening the form again would show, and send, what it shows now: what is split,
\* joined, filled in and trimmed on the way out fits what is done on the way
\* in (localInputs, loadChannel, loadWebhook, loadUser), and the server writes
\* what is blank, where it is meant to.
ReopenedIsSame ==
    settled =>
        LET now == LocalInputs(form.kind, inputs)
            then == LocalInputs(form.kind, Loaded(form.kind, Read(form.kind, saved[1])))
        IN  \A f \in Kept(form.kind) :
                now[f] = then[f] \/ (form.kind # "channel" /\ f \in Skipped /\ now[f] = "")
=============================================================================
