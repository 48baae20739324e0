---------------------------- MODULE ConsoleProofs ----------------------------
(***************************************************************************)
(* Proofs about the pages of the console.  The forms (EditForms): what they*)
(* save is usable, and they show it again as it was.  The settings         *)
(* (SettingForm): at rest they show what the server has.  The tables       *)
(* (AdminTable): they show no deleted row and no status that is not so.    *)
(* For every set of rows, types, texts, lists and options, and every number*)
(* of changes, requests and presses.                                       *)
(***************************************************************************)
EXTENDS Console, Integers, FiniteSetTheorems, WellFoundedInduction, TLAPS

----------------------------------------------------------------------------
(* What the definitions are for each kind of form.                          *)

IsSequence(s) == \E M : s \in Seq(M)

\* What a form of a kind holds, and a row of its table.
FieldsOfForm(kind) == IF kind = "channel" THEN F!ChannelFields ELSE F!ColumnsOf(kind)

FieldsTyped(kind, item, fields) ==
    /\ DOMAIN item = fields
    /\ kind = "channel" => IsSequence(item["app_id"]) /\ IsSequence(item["account_id"])

InputsTyped(kind, in) == FieldsTyped(kind, in, FieldsOfForm(kind))
RowTyped(kind, item) == FieldsTyped(kind, item, F!ColumnsOf(kind))

\* What the server may be sent.
Sound(kind, id, body) ==
    IF kind \in F!Users THEN id = 0 => body.username # "" ELSE F!Promised(kind, body)

\* A row was written from a body.
Fits(kind, item, body) ==
    CASE kind = "channel" -> \A f \in F!Columns \ {"secret"} : item[f] = body[f]
      [] kind = "webhook" -> item = body
      [] kind \in F!Users -> \A f \in F!Kept(kind) : body[f] # "" => item[f] = body[f]
      [] OTHER -> TRUE

\* What the senders ask of a channel.
ChannelUsable(item) ==
    /\ item["type"] = "group" => Len(item["app_id"]) = Len(item["account_id"])
    /\ item["type"] = "corp_app" => Len(item["app_id"]) = 2
    /\ item["type"] = "custom" => item["other"] = "json"

\* What the operators of the forms are for each kind of form.
LEMMA KindsApart ==
    /\ Kinds = {"channel", "webhook", "message"} \cup F!Users
    /\ F!Users = {"user", "own", "push"}
BY DEF Kinds, F!Users

\* The fields of a channel.
LEMMA ChannelFieldsAre ==
    /\ F!ChannelFields = {"type", "app_id", "account_id", "url", "secret", "other", "corp_id", "agent_id"}
    /\ F!Columns = {"type", "app_id", "account_id", "url", "secret", "other"}
    /\ F!WithSeparators = {"app_id", "account_id"}
BY DEF F!ChannelFields, F!Columns, F!WithSeparators

\* The columns of each kind.
LEMMA ColumnsAre ==
    /\ F!ColumnsOf("channel") = F!Columns
    /\ F!ColumnsOf("webhook") = {"channel", "rules", "pre_script_enabled", "pre_script"}
    /\ F!ColumnsOf("message") = {"description", "content", "msg_type"}
    /\ \A kind \in F!Users : F!ColumnsOf(kind) = {"username", "password", "token", "channel"}
<1>1. F!ColumnsOf("channel") = F!Columns
  BY Zenon DEF F!ColumnsOf, F!Users
<1>2. F!ColumnsOf("webhook") = {"channel", "rules", "pre_script_enabled", "pre_script"}
  BY Zenon DEF F!ColumnsOf, F!Users
<1>3. F!ColumnsOf("message") = {"description", "content", "msg_type"}
  BY Zenon DEF F!ColumnsOf, F!Users
<1>4. \A kind \in F!Users : F!ColumnsOf(kind) = {"username", "password", "token", "channel"}
  BY Zenon DEF F!ColumnsOf, F!Users
<1> QED
  BY <1>1, <1>2, <1>3, <1>4

\* The fields of the other forms are the columns.
LEMMA FormFieldsAre ==
    /\ FieldsOfForm("channel") = F!ChannelFields
    /\ \A kind \in Kinds \ {"channel"} : FieldsOfForm(kind) = F!ColumnsOf(kind)
BY DEF FieldsOfForm

\* Origin of each kind.
LEMMA OriginIs ==
    /\ F!Origin("channel") = F!NewChannel
    /\ F!Origin("webhook") = F!NewWebhook
    /\ F!Origin("message") = F!NewMessage
    /\ \A kind \in F!Users : F!Origin(kind) = F!NewUser
<1>1. F!Origin("channel") = F!NewChannel
  BY Zenon DEF F!Origin, F!Users
<1>2. F!Origin("webhook") = F!NewWebhook
  BY Zenon DEF F!Origin, F!Users
<1>3. F!Origin("message") = F!NewMessage
  BY Zenon DEF F!Origin, F!Users
<1>4. \A kind \in F!Users : F!Origin(kind) = F!NewUser
  BY Zenon DEF F!Origin, F!Users
<1> QED
  BY <1>1, <1>2, <1>3, <1>4

\* Read of each kind.
LEMMA ReadIs ==
    ASSUME NEW item
    PROVE  /\ F!Read("channel", item) = F!GetChannel(item)
           /\ F!Read("webhook", item) = item
           /\ F!Read("message", item) = item
           /\ \A kind \in F!Users : F!Read(kind, item) = F!GetUser(item)
<1>1. F!Read("channel", item) = F!GetChannel(item)
  BY Zenon DEF F!Read, F!Users
<1>2. F!Read("webhook", item) = item
  BY Zenon DEF F!Read, F!Users
<1>3. F!Read("message", item) = item
  BY Zenon DEF F!Read, F!Users
<1>4. \A kind \in F!Users : F!Read(kind, item) = F!GetUser(item)
  BY Zenon DEF F!Read, F!Users
<1> QED
  BY <1>1, <1>2, <1>3, <1>4

\* Loaded of each kind.
LEMMA LoadedIs ==
    ASSUME NEW item
    PROVE  /\ F!Loaded("channel", item) = F!LoadChannel(item)
           /\ F!Loaded("webhook", item) = F!LoadWebhook(item)
           /\ F!Loaded("message", item) = item
           /\ F!Loaded("push", item) = F!LoadPush(item)
           /\ \A kind \in {"user", "own"} : F!Loaded(kind, item) = item
<1>1. F!Loaded("channel", item) = F!LoadChannel(item)
  BY Zenon DEF F!Loaded, F!Users
<1>2. F!Loaded("webhook", item) = F!LoadWebhook(item)
  BY Zenon DEF F!Loaded, F!Users
<1>3. F!Loaded("message", item) = item
  BY Zenon DEF F!Loaded, F!Users
<1>4. F!Loaded("push", item) = F!LoadPush(item)
  BY Zenon DEF F!Loaded
<1>5. \A kind \in {"user", "own"} : F!Loaded(kind, item) = item
  BY Zenon DEF F!Loaded
<1> QED
  BY <1>1, <1>2, <1>3, <1>4, <1>5

\* Valid of each kind.
LEMMA ValidIs ==
    ASSUME NEW in
    PROVE  /\ F!Valid("channel", in) <=> F!ChannelValid(in)
           /\ F!Valid("webhook", in) <=> F!WebhookValid(in)
           /\ F!Valid("message", in) <=> F!MessageValid(in)
           /\ \A kind \in F!Users : F!Valid(kind, in) <=> F!UserValid(in)
<1>1. F!Valid("channel", in) <=> F!ChannelValid(in)
  BY Zenon DEF F!Valid, F!Users
<1>2. F!Valid("webhook", in) <=> F!WebhookValid(in)
  BY Zenon DEF F!Valid, F!Users
<1>3. F!Valid("message", in) <=> F!MessageValid(in)
  BY Zenon DEF F!Valid, F!Users
<1>4. \A kind \in F!Users : F!Valid(kind, in) <=> F!UserValid(in)
  BY Zenon DEF F!Valid, F!Users
<1> QED
  BY <1>1, <1>2, <1>3, <1>4

\* LocalInputs of each kind.
LEMMA LocalIs ==
    ASSUME NEW in
    PROVE  /\ F!LocalInputs("channel", in) = F!LocalChannel(in)
           /\ F!LocalInputs("webhook", in) = F!LocalWebhook(in)
           /\ F!LocalInputs("message", in) = in
           /\ F!LocalInputs("push", in) = F!LocalPush(in)
           /\ \A kind \in {"user", "own"} : F!LocalInputs(kind, in) = in
<1>1. F!LocalInputs("channel", in) = F!LocalChannel(in)
  BY Zenon DEF F!LocalInputs, F!Users
<1>2. F!LocalInputs("webhook", in) = F!LocalWebhook(in)
  BY Zenon DEF F!LocalInputs, F!Users
<1>3. F!LocalInputs("message", in) = in
  BY Zenon DEF F!LocalInputs, F!Users
<1>4. F!LocalInputs("push", in) = F!LocalPush(in)
  BY Zenon DEF F!LocalInputs
<1>5. \A kind \in {"user", "own"} : F!LocalInputs(kind, in) = in
  BY Zenon DEF F!LocalInputs
<1> QED
  BY <1>1, <1>2, <1>3, <1>4, <1>5

\* Created of each kind.
LEMMA CreatedIs ==
    ASSUME NEW body
    PROVE  /\ F!Created("channel", body) = F!AddChannel(body)
           /\ F!Created("webhook", body) = body
           /\ F!Created("message", body) = body
           /\ \A kind \in F!Users : F!Created(kind, body) = F!CreateUser(body)
<1>1. F!Created("channel", body) = F!AddChannel(body)
  BY Zenon DEF F!Created, F!Users
<1>2. F!Created("webhook", body) = body
  BY Zenon DEF F!Created, F!Users
<1>3. F!Created("message", body) = body
  BY Zenon DEF F!Created, F!Users
<1>4. \A kind \in F!Users : F!Created(kind, body) = F!CreateUser(body)
  BY Zenon DEF F!Created, F!Users
<1> QED
  BY <1>1, <1>2, <1>3, <1>4

\* Updated of each kind.
LEMMA UpdatedIs ==
    ASSUME NEW item, NEW body
    PROVE  /\ F!Updated("channel", item, body) = F!UpdateChannel(item, body)
           /\ F!Updated("webhook", item, body) = body
           /\ \A kind \in F!Users : F!Updated(kind, item, body) = F!UpdateUser(kind, item, body)
<1>1. F!Updated("channel", item, body) = F!UpdateChannel(item, body)
  BY Zenon DEF F!Updated, F!Users
<1>2. F!Updated("webhook", item, body) = body
  BY Zenon DEF F!Updated, F!Users
<1>3. \A kind \in F!Users : F!Updated(kind, item, body) = F!UpdateUser(kind, item, body)
  BY Zenon DEF F!Updated, F!Users
<1> QED
  BY <1>1, <1>2, <1>3

\* Promised of each kind.
LEMMA PromisedIs ==
    ASSUME NEW item
    PROVE  /\ F!Promised("channel", item) <=> ChannelUsable(item)
           /\ F!Promised("webhook", item) <=> (item.channel # "default" /\ item.rules \in {"object", "json"})
           /\ F!Promised("message", item) <=> (item.msg_type # "" => item.content = "object")
           /\ \A kind \in F!Users : F!Promised(kind, item) <=> item.username # ""
<1>1. F!Usable("channel", item) <=> ChannelUsable(item)
  BY Zenon DEF ChannelUsable, F!Usable, F!Users
<1>2. F!Usable("webhook", item) <=> (item.channel # "default" /\ item.rules = "object")
  BY Zenon DEF F!Usable, F!Users
<1>3. F!Usable("message", item) <=> (item.msg_type # "" => item.content = "object")
  BY Zenon DEF F!Usable, F!Users
<1>4. \A kind \in F!Users : F!Usable(kind, item) <=> item.username # ""
  BY Zenon DEF F!Usable, F!Users
<1>5. "webhook" \notin F!Users
  BY DEF F!Users
<1> QED
  BY <1>1, <1>2, <1>3, <1>4, <1>5 DEF F!Promised, F!OtherJson

\* Fits of each kind.
LEMMA FitsIs ==
    ASSUME NEW item, NEW body
    PROVE  /\ Fits("channel", item, body) <=> \A f \in F!Columns \ {"secret"} : item[f] = body[f]
           /\ Fits("webhook", item, body) <=> item = body
           /\ \A kind \in F!Users : Fits(kind, item, body)
                  <=> \A f \in F!Kept(kind) : body[f] # "" => item[f] = body[f]
<1>1. Fits("channel", item, body) <=> \A f \in F!Columns \ {"secret"} : item[f] = body[f]
  BY Zenon DEF Fits, F!Users
<1>2. Fits("webhook", item, body) <=> item = body
  BY Zenon DEF Fits, F!Users
<1>3. \A kind \in F!Users : Fits(kind, item, body)
                  <=> \A f \in F!Kept(kind) : body[f] # "" => item[f] = body[f]
  BY Zenon DEF Fits, F!Users
<1> QED
  BY <1>1, <1>2, <1>3

\* A field of a channel was written.
LEMMA FitsChannel ==
    ASSUME NEW item, NEW body, Fits("channel", item, body)
    PROVE  \A f \in F!Columns \ {"secret"} : item[f] = body[f]
BY Zenon DEF Fits, F!Users

\* A field of a user that was not blank was written.
LEMMA FitsUser ==
    ASSUME NEW kind \in F!Users, NEW item, NEW body, Fits(kind, item, body)
    PROVE  \A f \in F!Kept(kind) : body[f] # "" => item[f] = body[f]
BY Zenon DEF Fits, F!Users

----------------------------------------------------------------------------
(* What the forms and the server compute has the right fields.              *)

\* The fields with separators hold sequences.
LEMMA SequencesAre ==
    /\ IsSequence(F!Blank)
    /\ IsSequence(<<"id">>)
    /\ \A a, b : IsSequence(<<a, b>>)
    /\ \A s : IsSequence(s) => IsSequence(F!Blanks(Len(s))) /\ Len(F!Blanks(Len(s))) = Len(s)
<1>1. ASSUME NEW n \in Nat
      PROVE  IsSequence(F!Blanks(n)) /\ Len(F!Blanks(n)) = n
  <2>1. ASSUME NEW a
        PROVE  [i \in 1 .. n |-> a] \in Seq({a}) /\ Len([i \in 1 .. n |-> a]) = n
    OBVIOUS
  <2> QED
    BY <2>1 DEF F!Blanks, IsSequence
<1>2. \A s : IsSequence(s) => Len(s) \in Nat
  BY DEF IsSequence
<1>3. IsSequence(F!Blank)
  <2>1. <<"">> \in Seq({""})
    OBVIOUS
  <2> QED
    BY <2>1 DEF F!Blank, IsSequence
<1>4. IsSequence(<<"id">>)
  <2>1. <<"id">> \in Seq({"id"})
    OBVIOUS
  <2> QED
    BY <2>1 DEF IsSequence
<1>5. ASSUME NEW a, NEW b PROVE IsSequence(<<a, b>>)
  <2>1. <<a, b>> \in Seq({a, b})
    OBVIOUS
  <2> QED
    BY <2>1 DEF IsSequence
<1> QED
  BY <1>1, <1>2, <1>3, <1>4, <1>5

\* What was saved earlier has the columns of its table.
LEMMA RowIsTyped ==
    ASSUME NEW kind, NEW item, F!Row(kind, item)
    PROVE  RowTyped(kind, item)
BY ChannelFieldsAre DEF F!Row, RowTyped, FieldsTyped, IsSequence

\* An empty form has its fields.
LEMMA OriginTyped ==
    ASSUME NEW kind \in Kinds
    PROVE  /\ InputsTyped(kind, F!Origin(kind))
           /\ kind = "message" => F!Origin(kind).msg_type = ""
<1>1. CASE kind = "channel"
  <2>1. DOMAIN F!NewChannel = F!ChannelFields
    BY DEF F!NewChannel
  <2>2. F!NewChannel["app_id"] = F!Blank /\ F!NewChannel["account_id"] = F!Blank
    BY ChannelFieldsAre, Zenon DEF F!NewChannel
  <2> QED
    BY <1>1, <2>1, <2>2, OriginIs, SequencesAre, FormFieldsAre DEF InputsTyped, FieldsTyped
<1>2. CASE kind = "webhook"
  <2>1. DOMAIN F!NewWebhook = {"channel", "rules", "pre_script_enabled", "pre_script"}
    BY DEF F!NewWebhook
  <2> QED
    BY <1>2, <2>1, OriginIs, ColumnsAre, FormFieldsAre DEF InputsTyped, FieldsTyped
<1>3. CASE kind = "message"
  <2>1. DOMAIN F!NewMessage = {"description", "content", "msg_type"} /\ F!NewMessage.msg_type = ""
    BY DEF F!NewMessage
  <2> QED
    BY <1>3, <2>1, OriginIs, ColumnsAre, FormFieldsAre DEF InputsTyped, FieldsTyped
<1>4. CASE kind \in F!Users
  <2>1. DOMAIN F!NewUser = {"username", "password", "token", "channel"}
    BY DEF F!NewUser
  <2> QED
    BY <1>4, <2>1, OriginIs, ColumnsAre, FormFieldsAre, KindsApart DEF InputsTyped, FieldsTyped
<1> QED
  BY <1>1, <1>2, <1>3, <1>4, KindsApart

\* What the server tells of a row has its columns.
LEMMA ReadTyped ==
    ASSUME NEW kind \in Kinds, NEW item, RowTyped(kind, item)
    PROVE  RowTyped(kind, F!Read(kind, item))
<1>1. CASE kind = "channel"
  BY <1>1, ReadIs, ColumnsAre, ChannelFieldsAre DEF F!GetChannel, RowTyped, FieldsTyped
<1>2. CASE kind \in {"webhook", "message"}
  BY <1>2, ReadIs
<1>3. CASE kind \in F!Users
  <2>1. F!Read(kind, item) = F!GetUser(item)
    BY <1>3, ReadIs, Zenon
  <2>2. DOMAIN F!GetUser(item) = DOMAIN item
    BY DEF F!GetUser
  <2> QED
    BY <1>3, <2>1, <2>2, KindsApart DEF RowTyped, FieldsTyped
<1> QED
  BY <1>1, <1>2, <1>3, KindsApart

\* What a form makes of a row has its fields.
LEMMA LoadedTyped ==
    ASSUME NEW kind \in Kinds, NEW item, RowTyped(kind, item)
    PROVE  /\ InputsTyped(kind, F!Loaded(kind, item))
           /\ kind = "message" => F!Loaded(kind, item) = item
<1>1. CASE kind = "channel"
  <2>1. DOMAIN F!LoadChannel(item) = F!ChannelFields
    BY DEF F!LoadChannel
  <2>2. /\ F!LoadChannel(item)["app_id"] = item["app_id"]
        /\ F!LoadChannel(item)["account_id"] = item["account_id"]
    BY ChannelFieldsAre DEF F!LoadChannel
  <2> QED
    BY <1>1, <2>1, <2>2, LoadedIs, FormFieldsAre DEF InputsTyped, RowTyped, FieldsTyped
<1>2. CASE kind = "webhook"
  BY <1>2, LoadedIs, FormFieldsAre, KindsApart DEF F!LoadWebhook, InputsTyped, RowTyped, FieldsTyped
<1>3. CASE kind = "message"
  BY <1>3, LoadedIs, FormFieldsAre, KindsApart DEF InputsTyped, RowTyped, FieldsTyped
<1>4. CASE kind \in {"user", "own"}
  BY <1>4, LoadedIs, FormFieldsAre, KindsApart DEF InputsTyped, RowTyped, FieldsTyped
<1>5. CASE kind = "push"
  BY <1>5, LoadedIs, FormFieldsAre, KindsApart DEF F!LoadPush, InputsTyped, RowTyped, FieldsTyped
<1> QED
  BY <1>1, <1>2, <1>3, <1>4, <1>5, KindsApart

----------------------------------------------------------------------------
(* What is sent is what the server code that uses it accepts.               *)

\* localInputs of the form for channels, by the type of the channel.
LEMMA LocalChannelIs ==
    ASSUME NEW in
    PROVE  /\ in["type"] = "corp_app" =>
                  F!LocalChannel(in) = [in EXCEPT !["app_id"] = <<in["corp_id"], in["agent_id"]>>]
           /\ in["type"] = "bark" /\ in["url"] = "" =>
                  F!LocalChannel(in) = [in EXCEPT !["url"] = F!DayApp]
           /\ in["type"] = "one_bot" =>
                  F!LocalChannel(in) = [in EXCEPT !["url"] = F!WithoutSlash(in["url"])]
           /\ in["type"] = "group" =>
                  F!LocalChannel(in) = [in EXCEPT !["account_id"] = F!Targets(in)]
           /\ in["type"] \notin {"corp_app", "one_bot", "group"} /\ (in["type"] = "bark" => in["url"] # "") =>
                  F!LocalChannel(in) = in
<1>1. ASSUME in["type"] = "corp_app"
      PROVE  F!LocalChannel(in) = [in EXCEPT !["app_id"] = <<in["corp_id"], in["agent_id"]>>]
  BY <1>1, Zenon DEF F!LocalChannel
<1>2. ASSUME in["type"] = "bark", in["url"] = ""
      PROVE  F!LocalChannel(in) = [in EXCEPT !["url"] = F!DayApp]
  BY <1>2, Zenon DEF F!LocalChannel
<1>3. ASSUME in["type"] = "one_bot"
      PROVE  F!LocalChannel(in) = [in EXCEPT !["url"] = F!WithoutSlash(in["url"])]
  BY <1>3, Zenon DEF F!LocalChannel
<1>4. ASSUME in["type"] = "group"
      PROVE  F!LocalChannel(in) = [in EXCEPT !["account_id"] = F!Targets(in)]
  BY <1>4, Zenon DEF F!LocalChannel
<1>5. ASSUME in["type"] \notin {"corp_app", "one_bot", "group"}, in["type"] = "bark" => in["url"] # ""
      PROVE  F!LocalChannel(in) = in
  BY <1>5, Zenon DEF F!LocalChannel
<1> QED
  BY <1>1, <1>2, <1>3, <1>4, <1>5

\* A group has as many targets as channels, once the form has filled them in.
LEMMA TargetsMatch ==
    ASSUME NEW in, IsSequence(in["app_id"]), IsSequence(in["account_id"])
    PROVE  /\ IsSequence(F!Targets(in))
           /\ in["account_id"] = F!Blank \/ Len(in["app_id"]) = Len(in["account_id"]) =>
                  Len(in["app_id"]) = Len(F!Targets(in))
BY SequencesAre DEF F!Targets

\* submit of the form for channels sends what the senders accept.
LEMMA ChannelSound ==
    ASSUME NEW in, InputsTyped("channel", in), F!ChannelValid(in)
    PROVE  InputsTyped("channel", F!LocalChannel(in)) /\ ChannelUsable(F!LocalChannel(in))
<1> DEFINE body == F!LocalChannel(in)
<1>1. /\ DOMAIN in = F!ChannelFields
      /\ IsSequence(in["app_id"]) /\ IsSequence(in["account_id"])
  BY FormFieldsAre DEF InputsTyped, FieldsTyped
<1>2. CASE in["type"] = "corp_app"
  <2>1. /\ DOMAIN body = F!ChannelFields /\ body["type"] = in["type"]
        /\ body["app_id"] = <<in["corp_id"], in["agent_id"]>> /\ body["account_id"] = in["account_id"]
    BY <1>1, <1>2, LocalChannelIs, ChannelFieldsAre
  <2>2. IsSequence(<<in["corp_id"], in["agent_id"]>>) /\ Len(<<in["corp_id"], in["agent_id"]>>) = 2
    BY SequencesAre
  <2> QED
    BY <1>1, <1>2, <2>1, <2>2, FormFieldsAre DEF InputsTyped, FieldsTyped, ChannelUsable
<1>3. CASE in["type"] = "bark" /\ in["url"] = ""
  <2>1. /\ DOMAIN body = F!ChannelFields /\ body["type"] = in["type"]
        /\ body["app_id"] = in["app_id"] /\ body["account_id"] = in["account_id"]
    BY <1>1, <1>3, LocalChannelIs, ChannelFieldsAre
  <2> QED
    BY <1>1, <1>3, <2>1, FormFieldsAre DEF InputsTyped, FieldsTyped, ChannelUsable
<1>4. CASE in["type"] = "one_bot"
  <2>1. /\ DOMAIN body = F!ChannelFields /\ body["type"] = in["type"]
        /\ body["app_id"] = in["app_id"] /\ body["account_id"] = in["account_id"]
    BY <1>1, <1>4, LocalChannelIs, ChannelFieldsAre
  <2> QED
    BY <1>1, <1>4, <2>1, FormFieldsAre DEF InputsTyped, FieldsTyped, ChannelUsable
<1>5. CASE in["type"] = "group"
  <2>1. /\ DOMAIN body = F!ChannelFields /\ body["type"] = in["type"]
        /\ body["app_id"] = in["app_id"] /\ body["account_id"] = F!Targets(in)
    <3>1. body = [in EXCEPT !["account_id"] = F!Targets(in)]
      BY <1>5, LocalChannelIs
    <3>2. ASSUME NEW targets
          PROVE  LET new == [in EXCEPT !["account_id"] = targets]
                 IN  /\ DOMAIN new = F!ChannelFields /\ new["type"] = in["type"]
                     /\ new["app_id"] = in["app_id"] /\ new["account_id"] = targets
      BY <1>1, ChannelFieldsAre
    <3> QED
      BY <3>1, <3>2
  <2>2. IsSequence(F!Targets(in)) /\ Len(in["app_id"]) = Len(F!Targets(in))
    BY <1>1, <1>5, TargetsMatch DEF F!ChannelValid
  <2> QED
    BY <1>1, <1>5, <2>1, <2>2, FormFieldsAre DEF InputsTyped, FieldsTyped, ChannelUsable
<1>6. CASE in["type"] \notin {"corp_app", "one_bot", "group"} /\ (in["type"] = "bark" => in["url"] # "")
  BY <1>6, LocalChannelIs DEF ChannelUsable, F!ChannelValid
<1> QED
  BY <1>2, <1>3, <1>4, <1>5, <1>6

\* What submit sends, if it sends anything, is sound.
LEMMA LocalSound ==
    ASSUME NEW kind \in Kinds, NEW in, InputsTyped(kind, in), F!Valid(kind, in),
           kind = "message" /\ in.msg_type # "" => jsonMode,
           kind = "push" => form.id # 0
    PROVE  /\ InputsTyped(kind, F!LocalInputs(kind, in))
           /\ Sound(kind, form.id, F!LocalInputs(kind, in))
<1>1. CASE kind = "channel"
  <2>1. F!ChannelValid(in) /\ F!LocalInputs(kind, in) = F!LocalChannel(in)
    BY <1>1, LocalIs, ValidIs, Zenon
  <2>2. InputsTyped("channel", F!LocalChannel(in)) /\ ChannelUsable(F!LocalChannel(in))
    BY <1>1, <2>1, ChannelSound
  <2>3. F!Promised("channel", F!LocalChannel(in))
    BY <2>2, PromisedIs, Zenon
  <2> QED
    BY <1>1, <2>1, <2>2, <2>3, KindsApart DEF Sound
<1>2. CASE kind = "webhook"
  <2>1. LET body == F!LocalWebhook(in)
        IN  DOMAIN body = DOMAIN in /\ body.channel # "default" /\ body.rules = in.rules
    BY <1>2, ColumnsAre, FormFieldsAre, KindsApart DEF InputsTyped, FieldsTyped, F!LocalWebhook
  <2>2. in.rules \in {"object", "json"}
    BY <1>2, ValidIs DEF F!WebhookValid, F!VerifyJSON
  <2> QED
    BY <1>2, <2>1, <2>2, LocalIs, PromisedIs, KindsApart DEF InputsTyped, FieldsTyped, Sound
<1>3. CASE kind = "message"
  BY <1>3, LocalIs, ValidIs, PromisedIs, KindsApart DEF F!MessageValid, Sound
<1>4. CASE kind \in {"user", "own"}
  BY <1>4, LocalIs, ValidIs, KindsApart DEF F!UserValid, Sound
<1>5. CASE kind = "push"
  <2>1. DOMAIN F!LocalPush(in) = DOMAIN in
    BY DEF F!LocalPush
  <2> QED
    BY <1>5, <2>1, LocalIs, KindsApart DEF InputsTyped, FieldsTyped, Sound
<1> QED
  BY <1>1, <1>2, <1>3, <1>4, <1>5, KindsApart

\* A row that is updated stays usable, keeps its secret and has what was sent.
LEMMA UpdatedSound ==
    ASSUME NEW kind \in Kinds \ {"message"}, NEW id, NEW item, NEW body,
           RowTyped(kind, item), F!Promised(kind, item), F!HasSecret(kind, item),
           InputsTyped(kind, body), Sound(kind, id, body)
    PROVE  LET new == F!Updated(kind, item, body)
           IN  /\ RowTyped(kind, new) /\ F!Promised(kind, new) /\ F!HasSecret(kind, new)
               /\ Fits(kind, new, body)
<1> DEFINE new == F!Updated(kind, item, body)
<1>1. CASE kind = "channel"
  <2>1. /\ DOMAIN new = F!Columns
        /\ \A f \in F!Columns \ {"secret"} : new[f] = body[f]
        /\ new["secret"] = IF body["secret"] = "" THEN item["secret"] ELSE body["secret"]
    <3>1. new = [f \in F!Columns |-> IF f = "secret" /\ body[f] = "" THEN item[f] ELSE body[f]]
      <4>1. new = F!UpdateChannel(item, body)
        BY <1>1, UpdatedIs, Zenon
      <4> HIDE DEF new
      <4> QED
        BY <4>1, Zenon DEF F!UpdateChannel
    <3> HIDE DEF new
    <3> QED
      BY <3>1, ChannelFieldsAre
  <2>2. /\ new["type"] = body["type"] /\ new["app_id"] = body["app_id"]
        /\ new["account_id"] = body["account_id"] /\ new["other"] = body["other"]
    BY <2>1, ChannelFieldsAre
  <2>3. ChannelUsable(body) /\ IsSequence(body["app_id"]) /\ IsSequence(body["account_id"])
    BY <1>1, PromisedIs, KindsApart DEF Sound, InputsTyped, FieldsTyped
  <2>4. new["secret"] # ""
    BY <1>1, <2>1 DEF F!HasSecret
  <2> HIDE DEF new
  <2>5. RowTyped(kind, new)
    BY <1>1, <2>1, <2>2, <2>3, ColumnsAre DEF RowTyped, FieldsTyped
  <2>6. F!Promised(kind, new)
    BY <1>1, <2>2, <2>3, PromisedIs DEF ChannelUsable
  <2>7. F!HasSecret(kind, new)
    BY <1>1, <2>4, KindsApart DEF F!HasSecret
  <2>8. Fits(kind, new, body)
    BY <1>1, <2>1, FitsIs
  <2> QED
    BY <2>5, <2>6, <2>7, <2>8 DEF new
<1>2. CASE kind = "webhook"
  <2>1. new = body
    BY <1>2, UpdatedIs
  <2>2. F!Promised(kind, body) /\ RowTyped(kind, body)
    BY <1>2, FormFieldsAre, KindsApart DEF Sound, InputsTyped, RowTyped
  <2>3. F!HasSecret(kind, body)
    BY <1>2, KindsApart DEF F!HasSecret
  <2> QED
    BY <1>2, <2>1, <2>2, <2>3, FitsIs
<1>3. CASE kind \in F!Users
  <2>1. /\ DOMAIN new = DOMAIN item
        /\ \A f \in DOMAIN item : new[f] =
              IF body[f] = "" \/ (kind = "user" /\ f \notin {"username", "password"}) THEN item[f] ELSE body[f]
    <3>1. new = F!UpdateUser(kind, item, body)
      BY <1>3, UpdatedIs
    <3> HIDE DEF new
    <3> QED
      BY <3>1 DEF F!UpdateUser
  <2>2. DOMAIN item = {"username", "password", "token", "channel"}
    BY <1>3, ColumnsAre DEF RowTyped, FieldsTyped
  <2>3. item.username # "" /\ item.password # ""
    BY <1>3, PromisedIs DEF F!HasSecret
  <2>4. new.username # "" /\ new.password # ""
    BY <2>1, <2>2, <2>3
  <2> HIDE DEF new
  <2>5. RowTyped(kind, new)
    BY <1>3, <2>1, KindsApart DEF RowTyped, FieldsTyped
  <2>6. F!Promised(kind, new) /\ F!HasSecret(kind, new)
    BY <1>3, <2>4, PromisedIs, KindsApart DEF F!HasSecret
  <2>7. \A f \in F!Kept(kind) : f \in DOMAIN item /\ (kind = "user" => f = "username")
    <3>1. CASE kind \in {"user", "own"}
      <4>1. F!Kept(kind) = {"username"}
        BY <3>1, Zenon DEF F!Kept
      <4> QED
        BY <2>2, <4>1
    <3>2. CASE kind = "push"
      <4>1. F!Kept(kind) = {"token", "channel"}
        BY <3>2, Zenon DEF F!Kept
      <4> QED
        BY <2>2, <3>2, <4>1
    <3> QED
      BY <1>3, <3>1, <3>2, KindsApart
  <2>8. Fits(kind, new, body)
    BY <1>3, <2>1, <2>7, FitsIs
  <2> QED
    BY <2>5, <2>6, <2>8 DEF new
<1> QED
  BY <1>1, <1>2, <1>3, KindsApart

\* A row that is created is usable.
LEMMA CreatedSound ==
    ASSUME NEW kind \in Kinds, NEW id, NEW body, InputsTyped(kind, body), Sound(kind, id, body),
           id = 0 \/ kind = "message"
    PROVE  RowTyped(kind, F!Created(kind, body)) /\ F!Promised(kind, F!Created(kind, body))
<1>1. CASE kind = "channel"
  <2> DEFINE new == F!AddChannel(body)
  <2>1. /\ DOMAIN new = F!Columns
        /\ new["type"] = body["type"] /\ new["app_id"] = body["app_id"]
        /\ new["account_id"] = body["account_id"] /\ new["other"] = body["other"]
    BY ChannelFieldsAre DEF F!AddChannel
  <2>2. ChannelUsable(body) /\ IsSequence(body["app_id"]) /\ IsSequence(body["account_id"])
    BY <1>1, PromisedIs, KindsApart DEF Sound, InputsTyped, FieldsTyped
  <2> HIDE DEF new
  <2>3. RowTyped(kind, new)
    BY <1>1, <2>1, <2>2, ColumnsAre DEF RowTyped, FieldsTyped
  <2>4. F!Promised(kind, new)
    BY <1>1, <2>1, <2>2, PromisedIs DEF ChannelUsable
  <2> QED
    BY <1>1, <2>3, <2>4, CreatedIs DEF new
<1>2. CASE kind \in {"webhook", "message"}
  BY <1>2, CreatedIs, FormFieldsAre, KindsApart DEF Sound, InputsTyped, RowTyped, FieldsTyped
<1>3. CASE kind \in F!Users
  <2> DEFINE new == F!CreateUser(body)
  <2>1. DOMAIN new = {"username", "password", "token", "channel"} /\ new.username = body.username
    BY DEF F!CreateUser, F!NewUser
  <2>2. body.username # ""
    BY <1>3, KindsApart DEF Sound
  <2> HIDE DEF new
  <2>3. RowTyped(kind, new) /\ F!Promised(kind, new)
    BY <1>3, <2>1, <2>2, PromisedIs, ColumnsAre, KindsApart DEF RowTyped, FieldsTyped
  <2> QED
    BY <1>3, <2>3, CreatedIs DEF new
<1> QED
  BY <1>1, <1>2, <1>3, KindsApart

----------------------------------------------------------------------------
(* What was written is shown, and sent again, as it was.                    *)

\* The fields that are compared.
LEMMA KeptAre ==
    /\ F!Kept("channel") = F!Columns \ {"secret"}
    /\ F!Kept("webhook") = {"channel", "rules", "pre_script_enabled", "pre_script"}
    /\ F!Kept("message") = {}
    /\ \A kind \in {"user", "own"} : F!Kept(kind) = {"username"}
    /\ F!Kept("push") = {"token", "channel"}
<1>1. F!Kept("channel") = F!Columns \ {"secret"}
  BY Zenon DEF F!Kept
<1>2. F!Kept("webhook") = {"channel", "rules", "pre_script_enabled", "pre_script"}
  BY Zenon DEF F!Kept
<1>3. F!Kept("message") = {}
  BY Zenon DEF F!Kept
<1>4. \A kind \in {"user", "own"} : F!Kept(kind) = {"username"}
  BY Zenon DEF F!Kept
<1>5. F!Kept("push") = {"token", "channel"}
  BY Zenon DEF F!Kept
<1> QED
  BY <1>1, <1>2, <1>3, <1>4, <1>5

\* The form for channels, opened for a row.
LEMMA OpenedChannel ==
    ASSUME NEW item, RowTyped("channel", item)
    PROVE  LET shows == F!LoadChannel(F!GetChannel(item))
           IN  /\ DOMAIN shows = F!ChannelFields
               /\ \A f \in F!Columns \ {"secret"} : shows[f] = item[f]
               /\ item["type"] = "corp_app" =>
                      /\ shows["corp_id"] = F!PartOr(item["app_id"], 1)
                      /\ shows["agent_id"] = F!PartOr(item["app_id"], 2)
<1> DEFINE got == F!GetChannel(item)
           shows == F!LoadChannel(got)
<1>1. \A f \in F!Columns \ {"secret"} : got[f] = item[f]
  BY ColumnsAre DEF F!GetChannel, RowTyped, FieldsTyped
<1>2. got["type"] = item["type"] /\ got["app_id"] = item["app_id"]
  BY <1>1, ChannelFieldsAre
<1> HIDE DEF got
<1>3. DOMAIN shows = F!ChannelFields
  BY DEF F!LoadChannel
<1>4. \A f \in F!Columns : shows[f] = got[f]
  BY ChannelFieldsAre, Zenon DEF F!LoadChannel
<1>5. got["type"] = "corp_app" =>
          /\ shows["corp_id"] = F!PartOr(got["app_id"], 1)
          /\ shows["agent_id"] = F!PartOr(got["app_id"], 2)
  <2> SUFFICES ASSUME got["type"] = "corp_app"
               PROVE  /\ shows["corp_id"] = F!PartOr(got["app_id"], 1)
                      /\ shows["agent_id"] = F!PartOr(got["app_id"], 2)
    OBVIOUS
  <2>1. shows["corp_id"] = F!PartOr(got["app_id"], 1)
    BY ChannelFieldsAre DEF F!LoadChannel
  <2>2. shows["agent_id"] = F!PartOr(got["app_id"], 2)
    BY ChannelFieldsAre DEF F!LoadChannel
  <2> QED
    BY <2>1, <2>2
<1> HIDE DEF shows
<1>6. \A f \in F!Columns \ {"secret"} : shows[f] = item[f]
  BY <1>1, <1>4
<1> QED
  BY <1>2, <1>3, <1>5, <1>6 DEF shows, got

\* Splitting and joining, filling in and trimming a channel are stable: the form
\* opened for what it sent sends the same.
LEMMA ChannelReopened ==
    ASSUME NEW in, NEW shows, DOMAIN in = F!ChannelFields, DOMAIN shows = F!ChannelFields,
           \A f \in F!Columns \ {"secret"} : shows[f] = F!LocalChannel(in)[f],
           in["type"] = "corp_app" => shows["corp_id"] = in["corp_id"] /\ shows["agent_id"] = in["agent_id"]
    PROVE  \A f \in F!Columns \ {"secret"} : F!LocalChannel(shows)[f] = F!LocalChannel(in)[f]
<1> DEFINE now == F!LocalChannel(in)
           then == F!LocalChannel(shows)
           others(g) == F!Columns \ {"secret", g}
<1>0. F!Columns \ {"secret"} = {"type", "app_id", "account_id", "url", "other"}
  BY ChannelFieldsAre
<1>1. CASE in["type"] = "corp_app"
  <2>1. now = [in EXCEPT !["app_id"] = <<in["corp_id"], in["agent_id"]>>]
    BY <1>1, LocalChannelIs
  <2>2. now["type"] = in["type"] /\ now["app_id"] = <<in["corp_id"], in["agent_id"]>>
    BY <2>1, ChannelFieldsAre
  <2>3. shows["type"] = "corp_app"
    BY <1>0, <1>1, <2>2
  <2>4. then = [shows EXCEPT !["app_id"] = <<shows["corp_id"], shows["agent_id"]>>]
    BY <2>3, LocalChannelIs
  <2> HIDE DEF now, then
  <2>5. then["app_id"] = now["app_id"] /\ \A f \in others("app_id") : then[f] = shows[f]
    BY <1>1, <2>2, <2>4, ChannelFieldsAre
  <2> QED
    BY <2>5 DEF now, then
<1>2. CASE in["type"] = "bark" /\ in["url"] = ""
  <2>1. now = [in EXCEPT !["url"] = F!DayApp]
    BY <1>2, LocalChannelIs
  <2>2. now["type"] = in["type"] /\ now["url"] = F!DayApp
    BY <2>1, ChannelFieldsAre
  <2>3. shows["type"] = "bark" /\ shows["url"] # ""
    BY <1>0, <1>2, <2>2 DEF F!DayApp
  <2>4. then = shows
    BY <2>3, LocalChannelIs
  <2> QED
    BY <2>4
<1>3. CASE in["type"] = "one_bot"
  <2>1. now = [in EXCEPT !["url"] = F!WithoutSlash(in["url"])]
    BY <1>3, LocalChannelIs
  <2>2. now["type"] = in["type"] /\ now["url"] = F!WithoutSlash(in["url"])
    BY <2>1, ChannelFieldsAre
  <2>3. shows["type"] = "one_bot" /\ shows["url"] = now["url"]
    BY <1>0, <1>3, <2>2
  <2>4. then = [shows EXCEPT !["url"] = F!WithoutSlash(shows["url"])]
    BY <2>3, LocalChannelIs
  <2>5. F!WithoutSlash(F!WithoutSlash(in["url"])) = F!WithoutSlash(in["url"])
    BY DEF F!WithoutSlash
  <2> HIDE DEF now, then
  <2>6. then["url"] = now["url"] /\ \A f \in others("url") : then[f] = shows[f]
    BY <2>2, <2>3, <2>4, <2>5, ChannelFieldsAre
  <2> QED
    BY <2>6 DEF now, then
<1>4. CASE in["type"] = "group"
  <2>1. now = [in EXCEPT !["account_id"] = F!Targets(in)]
    BY <1>4, LocalChannelIs
  <2>2. /\ now["type"] = in["type"] /\ now["account_id"] = F!Targets(in) /\ now["app_id"] = in["app_id"]
    <3>1. ASSUME NEW targets
          PROVE  LET new == [in EXCEPT !["account_id"] = targets]
                 IN  new["type"] = in["type"] /\ new["app_id"] = in["app_id"] /\ new["account_id"] = targets
      BY ChannelFieldsAre
    <3> QED
      BY <2>1, <3>1
  <2>3. /\ shows["type"] = "group" /\ shows["account_id"] = F!Targets(in)
        /\ shows["app_id"] = in["app_id"]
    BY <1>0, <1>4, <2>2
  <2>4. then = [shows EXCEPT !["account_id"] = F!Targets(shows)]
    BY <2>3, LocalChannelIs
  <2>5. F!Targets(shows) = F!Targets(in)
    BY <2>3 DEF F!Targets
  <2>6. ASSUME NEW targets
        PROVE  LET new == [shows EXCEPT !["account_id"] = targets]
               IN  new["account_id"] = targets /\ \A f \in others("account_id") : new[f] = shows[f]
    BY ChannelFieldsAre
  <2> HIDE DEF now, then
  <2>7. then["account_id"] = now["account_id"] /\ \A f \in others("account_id") : then[f] = shows[f]
    BY <2>2, <2>4, <2>5, <2>6
  <2> QED
    BY <2>7 DEF now, then
<1>5. CASE in["type"] \notin {"corp_app", "one_bot", "group"} /\ (in["type"] = "bark" => in["url"] # "")
  <2>1. now = in
    BY <1>5, LocalChannelIs
  <2>2. shows["type"] = in["type"] /\ shows["url"] = in["url"]
    BY <1>0, <2>1
  <2>3. then = shows
    BY <1>5, <2>2, LocalChannelIs
  <2> QED
    BY <2>3
<1> QED
  BY <1>1, <1>2, <1>3, <1>4, <1>5

\* What is shown for a row that was written from a form sends what the form
\* sent, but for what is not written when it is blank.
LEMMA ReopenedSame ==
    ASSUME NEW kind \in Kinds, NEW in, NEW item,
           InputsTyped(kind, in), RowTyped(kind, item),
           Fits(kind, item, F!LocalInputs(kind, in)),
           NEW f \in F!Kept(kind)
    PROVE  LET now == F!LocalInputs(kind, in)
               then == F!LocalInputs(kind, F!Loaded(kind, F!Read(kind, item)))
           IN  now[f] = then[f] \/ (kind # "channel" /\ f \in F!Skipped /\ now[f] = "")
<1>1. CASE kind = "channel"
  <2> DEFINE now == F!LocalChannel(in)
             shows == F!LoadChannel(F!GetChannel(item))
  <2>0. /\ F!LocalInputs(kind, in) = now
        /\ F!LocalInputs(kind, F!Loaded(kind, F!Read(kind, item))) = F!LocalChannel(shows)
    <3>1. \A x : F!LocalInputs(kind, x) = F!LocalChannel(x)
      BY <1>1, LocalIs, Zenon
    <3>2. F!Loaded(kind, F!Read(kind, item)) = shows
      BY <1>1, LoadedIs, ReadIs, KindsApart, Zenon
    <3> QED
      BY <3>1, <3>2
  <2>1. \A g \in F!Columns \ {"secret"} : item[g] = now[g]
    <3> HIDE DEF now, shows
    <3>1. Fits("channel", item, now)
      BY <1>1, <2>0, Zenon
    <3> QED
      BY <3>1, FitsChannel, Zenon
  <2>2. /\ DOMAIN shows = F!ChannelFields
        /\ \A g \in F!Columns \ {"secret"} : shows[g] = item[g]
        /\ item["type"] = "corp_app" =>
               /\ shows["corp_id"] = F!PartOr(item["app_id"], 1)
               /\ shows["agent_id"] = F!PartOr(item["app_id"], 2)
    BY <1>1, OpenedChannel
  <2>3. DOMAIN in = F!ChannelFields
    BY <1>1, FormFieldsAre DEF InputsTyped, FieldsTyped
  <2>4. ASSUME in["type"] = "corp_app"
        PROVE  shows["corp_id"] = in["corp_id"] /\ shows["agent_id"] = in["agent_id"]
    <3>1. now = [in EXCEPT !["app_id"] = <<in["corp_id"], in["agent_id"]>>]
      BY <2>4, LocalChannelIs
    <3>2. now["type"] = "corp_app" /\ now["app_id"] = <<in["corp_id"], in["agent_id"]>>
      BY <2>3, <2>4, <3>1, ChannelFieldsAre
    <3>3. item["type"] = "corp_app" /\ item["app_id"] = <<in["corp_id"], in["agent_id"]>>
      BY <2>1, <3>2, ChannelFieldsAre
    <3>4. ASSUME NEW a, NEW b
          PROVE  F!PartOr(<<a, b>>, 1) = a /\ F!PartOr(<<a, b>>, 2) = b
      BY DEF F!PartOr
    <3> QED
      BY <2>2, <3>3, <3>4
  <2>5. \A g \in F!Columns \ {"secret"} : F!LocalChannel(shows)[g] = now[g]
    <3> HIDE DEF shows
    <3>1. \A g \in F!Columns \ {"secret"} : shows[g] = now[g]
      BY <2>1, <2>2
    <3> QED
      BY <2>2, <2>3, <2>4, <3>1, ChannelReopened
  <2> QED
    <3> HIDE DEF now, shows
    <3>1. f \in F!Columns \ {"secret"}
      BY <1>1, KeptAre
    <3> QED
      BY <2>0, <2>5, <3>1
<1>2. CASE kind = "webhook"
  <2> DEFINE now == F!LocalWebhook(in)
             then == F!LocalWebhook(F!LoadWebhook(item))
  <2>0. /\ F!LocalInputs(kind, in) = now
        /\ F!LocalInputs(kind, F!Loaded(kind, F!Read(kind, item))) = then
    <3>1. \A x : F!LocalInputs(kind, x) = F!LocalWebhook(x)
      BY <1>2, LocalIs, Zenon
    <3>2. F!Loaded(kind, F!Read(kind, item)) = F!LoadWebhook(item)
      BY <1>2, LoadedIs, ReadIs, KindsApart, Zenon
    <3> QED
      BY <3>1, <3>2
  <2>1. item = now /\ DOMAIN item = {"channel", "rules", "pre_script_enabled", "pre_script"}
    BY <1>2, LocalIs, FitsIs, ColumnsAre DEF RowTyped, FieldsTyped
  <2>2. DOMAIN in = {"channel", "rules", "pre_script_enabled", "pre_script"}
    BY <1>2, FormFieldsAre, ColumnsAre, KindsApart DEF InputsTyped, FieldsTyped
  <2>3. now["channel"] # "default"
    BY <2>2 DEF F!LocalWebhook
  <2>4. /\ then["channel"] = item["channel"] \/ item["channel"] = "default"
        /\ then["rules"] = item["rules"] /\ then["pre_script_enabled"] = item["pre_script_enabled"]
        /\ then["pre_script"] = item["pre_script"] \/ item["pre_script"] = ""
    BY <2>1 DEF F!LocalWebhook, F!LoadWebhook
  <2> HIDE DEF now, then
  <2>5. f \in {"channel", "rules", "pre_script_enabled", "pre_script"}
    BY <1>2, KeptAre
  <2>6. now[f] = then[f] \/ (f \in F!Skipped /\ now[f] = "")
    BY <2>1, <2>3, <2>4, <2>5 DEF F!Skipped
  <2> QED
    BY <1>2, <2>0, <2>6
<1>3. CASE kind = "message"
  BY <1>3, KeptAre
<1>4. CASE kind \in {"user", "own"}
  <2>1. f = "username" /\ kind \in F!Users
    BY <1>4, KeptAre, KindsApart
  <2>0. /\ F!LocalInputs(kind, in) = in
        /\ F!LocalInputs(kind, F!Loaded(kind, F!Read(kind, item))) = F!GetUser(item)
    <3>1. \A x : F!LocalInputs(kind, x) = x
      BY <1>4, LocalIs, Zenon
    <3>2. F!Loaded(kind, F!Read(kind, item)) = F!GetUser(item)
      BY <1>4, <2>1, LoadedIs, ReadIs, KindsApart, Zenon
    <3> QED
      BY <3>1, <3>2
  <2>2. in["username"] # "" => item["username"] = in["username"]
    <3>1. Fits(kind, item, in)
      BY <2>0, Zenon
    <3>2. \A g \in F!Kept(kind) : in[g] # "" => item[g] = in[g]
      BY <2>1, <3>1, FitsUser, Zenon
    <3> QED
      BY <2>1, <3>2
  <2>3. F!GetUser(item)["username"] = item["username"]
    BY <2>1, ColumnsAre DEF F!GetUser, RowTyped, FieldsTyped
  <2> QED
    BY <1>4, <2>1, <2>2, <2>3, <2>0 DEF F!Skipped
<1>5. CASE kind = "push"
  <2> DEFINE now == F!LocalPush(in)
             got == F!GetUser(item)
             then == F!LocalPush(F!LoadPush(got))
  <2>1. kind \in F!Users /\ DOMAIN item = {"username", "password", "token", "channel"}
    BY <1>5, ColumnsAre, KindsApart DEF RowTyped, FieldsTyped
  <2>2. DOMAIN in = {"username", "password", "token", "channel"}
    BY <1>5, <2>1, FormFieldsAre, ColumnsAre DEF InputsTyped, FieldsTyped
  <2>0. /\ F!LocalInputs(kind, in) = now
        /\ F!LocalInputs(kind, F!Loaded(kind, F!Read(kind, item))) = then
    <3>1. \A x : F!LocalInputs(kind, x) = F!LocalPush(x)
      BY <1>5, LocalIs, Zenon
    <3>2. F!Loaded(kind, F!Read(kind, item)) = F!LoadPush(got)
      BY <1>5, <2>1, LoadedIs, ReadIs, KindsApart, Zenon
    <3> QED
      BY <3>1, <3>2
  <2>3. \A g \in {"token", "channel"} : now[g] # "" => item[g] = now[g]
    <3> HIDE DEF now, then
    <3>1. Fits(kind, item, now)
      BY <2>0, Zenon
    <3>2. \A g \in F!Kept(kind) : now[g] # "" => item[g] = now[g]
      <4>1. kind \in F!Users
        BY <2>1
      <4> QED
        BY <3>1, <4>1, FitsUser, Zenon
    <3> QED
      BY <1>5, <3>2, KeptAre
  <2>4. now["token"] # ""
    BY <2>2 DEF F!LocalPush, F!NoToken
  <2>5. /\ DOMAIN got = {"username", "password", "token", "channel"}
        /\ got["token"] = item["token"] /\ got["channel"] = item["channel"]
    BY <2>1 DEF F!GetUser
  <2> HIDE DEF now, got
  <2>6. /\ got["token"] # "" => then["token"] = got["token"]
        /\ got["channel"] # "" => then["channel"] = got["channel"]
    BY <2>5 DEF F!LocalPush, F!LoadPush, F!NoToken
  <2> HIDE DEF then
  <2>7. f \in {"token", "channel"}
    BY <1>5, KeptAre
  <2>8. now[f] = then[f] \/ (f \in F!Skipped /\ now[f] = "")
    BY <2>3, <2>4, <2>5, <2>6, <2>7 DEF F!Skipped
  <2> QED
    BY <1>5, <2>0, <2>8
<1> QED
  BY <1>1, <1>2, <1>3, <1>4, <1>5, KindsApart

----------------------------------------------------------------------------
(* The invariant of a form.                                                 *)

FormShape ==
    /\ form = [kind |-> form.kind, id |-> form.id, loading |-> form.loading]
    /\ form.kind \in Kinds
    /\ form.kind \in {"own", "push"} => form.id # 0
    /\ submits \in Nat

\* What is saved is usable, and what is edited has its secret.
SavedSound ==
    /\ IsSequence(saved)
    /\ \A i \in DOMAIN saved : RowTyped(form.kind, saved[i]) /\ F!Promised(form.kind, saved[i])
    /\ form.id # 0 \/ form.kind \in F!Users => 1 \in DOMAIN saved /\ F!HasSecret(form.kind, saved[1])

\* What is shown has the fields of the form, and a structured message its mode.
InputsSound ==
    /\ InputsTyped(form.kind, inputs)
    /\ form.kind = "message" /\ inputs.msg_type # "" => jsonMode

\* While the form loads there is one request, and none to save; what is sent is
\* sound, whatever is typed after it.
PostSound(q) ==
    /\ {"n", "op", "body", "done", "ok"} \subseteq DOMAIN q
    /\ q.op \in {"get", "chat", "save"}
    /\ q.op = "get" => /\ form.loading /\ form.id # 0
                       /\ q.done /\ q.ok => RowTyped(form.kind, q.body)
    /\ q.op = "chat" => form.kind = "channel"
    /\ q.op = "save" => /\ ~form.loading /\ "alone" \in DOMAIN q
                        /\ q.n \in Nat /\ q.n <= submits
                        /\ ~q.done \/ q.ok => InputsTyped(form.kind, q.body) /\ Sound(form.kind, form.id, q.body)

PostsSound ==
    /\ \A q \in posts : PostSound(q)
    /\ \A q, r \in posts : q.op = "get" /\ r.op = "get" => q = r

\* The last press of the button, if it had no other beside it.
LastAlone(q) == q.op = "save" /\ q.alone /\ q.n = submits

Edits == form.id # 0 /\ form.kind # "message"

\* From the press to its answer nothing else is saved, so that what was sent is
\* what is there, and then what is shown.
LastFits ==
    \A q \in posts : LastAlone(q) =>
        /\ \A r \in posts : r.op = "save" => r = q
        /\ q.done /\ q.ok /\ Edits => Fits(form.kind, saved[1], q.body)

SettledFits ==
    settled => /\ ~form.loading /\ form.id # 0
               /\ \A q \in posts : q.op # "save"
               /\ Edits => Fits(form.kind, saved[1], F!LocalInputs(form.kind, inputs))

FormInv == FormShape /\ SavedSound /\ InputsSound /\ PostsSound /\ LastFits /\ SettledFits

\* Both properties follow.
LEMMA FormInvImplies == FormInv => SavedIsUsable /\ ReopenedIsSame
<1> SUFFICES ASSUME FormInv PROVE SavedIsUsable /\ ReopenedIsSame
  OBVIOUS
<1>1. SavedIsUsable
  BY DEF FormInv, SavedSound, SavedIsUsable, F!SavedIsUsable, F!SecretKept
<1>2. ReopenedIsSame
  <2> SUFFICES ASSUME settled, NEW f \in F!Kept(form.kind)
               PROVE  LET now == F!LocalInputs(form.kind, inputs)
                          then == F!LocalInputs(form.kind, F!Loaded(form.kind, F!Read(form.kind, saved[1])))
                      IN  now[f] = then[f] \/ (form.kind # "channel" /\ f \in F!Skipped /\ now[f] = "")
    BY Zenon DEF ReopenedIsSame, F!ReopenedIsSame
  <2>1. form.kind \in Kinds /\ form.kind # "message" /\ form.id # 0
    BY KeptAre DEF FormInv, FormShape, SettledFits
  <2>2. InputsTyped(form.kind, inputs) /\ RowTyped(form.kind, saved[1])
    BY <2>1 DEF FormInv, InputsSound, SavedSound
  <2>3. Fits(form.kind, saved[1], F!LocalInputs(form.kind, inputs))
    BY <2>1 DEF FormInv, SettledFits, Edits
  <2> QED
    BY <2>1, <2>2, <2>3, ReopenedSame, Zenon
<1> QED
  BY <1>1, <1>2

\* A step of another page keeps it.
LEMMA FormUnchanged == FormInv /\ UNCHANGED formVars => FormInv'
<1> SUFFICES ASSUME FormInv, UNCHANGED formVars PROVE FormInv'
  OBVIOUS
<1> USE DEF formVars
<1>1. FormShape' /\ SavedSound' /\ InputsSound'
  BY DEF FormInv, FormShape, SavedSound, InputsSound
<1>2. PostsSound'
  BY DEF FormInv, PostsSound, PostSound
<1>3. LastFits' /\ SettledFits'
  BY DEF FormInv, LastFits, LastAlone, SettledFits, Edits
<1> QED
  BY <1>1, <1>2, <1>3 DEF FormInv

\* Requests that are sent.
LEMMA AskIs ==
    ASSUME NEW n, NEW op
    PROVE  LET q == F!Ask(n, op)
           IN  {"n", "op", "body", "done", "ok"} \subseteq DOMAIN q /\ q.op = op /\ ~q.done
BY DEF F!Ask

\* A press of the button, as it is sent.
LEMMA SaveIs ==
    ASSUME NEW n, NEW body
    PROVE  LET q == F!Save(n, body)
           IN  /\ {"n", "op", "body", "done", "ok", "alone"} \subseteq DOMAIN q
               /\ q.n = n /\ q.op = "save" /\ q.body = body /\ ~q.done /\ (q.alone <=> posts = {})
BY DEF F!Save

\* A form is opened.
LEMMA FormOpened ==
    ASSUME NEW kind \in Kinds, NEW id \in {0, 1}, kind \in {"own", "push"} => id = 1,
           F!Open(kind, id), IsSequence(saved),
           \A i \in DOMAIN saved : RowTyped(kind, saved[i]) /\ F!Promised(kind, saved[i]),
           id # 0 \/ kind \in F!Users => 1 \in DOMAIN saved /\ F!HasSecret(kind, saved[1])
    PROVE  FormInv
<1>1. form.kind = kind /\ form.id = id /\ form.loading = (id # 0)
  BY DEF F!Open
<1>2. FormShape /\ SavedSound
  BY <1>1, KindsApart DEF F!Open, FormShape, SavedSound
<1>3. InputsSound
  BY <1>1, OriginTyped DEF F!Open, InputsSound
<1>4. \A q \in posts : q = F!Ask(0, "get") /\ form.loading /\ form.id # 0
  BY <1>1 DEF F!Open
<1>5. \A q \in posts : q.op = "get" /\ ~q.done /\ PostSound(q)
  BY <1>4, AskIs DEF PostSound
<1>6. PostsSound /\ LastFits
  BY <1>4, <1>5 DEF PostsSound, LastFits, LastAlone
<1>7. SettledFits
  BY DEF F!Open, SettledFits
<1> QED
  BY <1>2, <1>3, <1>6, <1>7 DEF FormInv

----------------------------------------------------------------------------
(* Every action keeps it.                                                   *)

\* Typing keeps it, if the inputs have their fields.
LEMMA InputsSet ==
    ASSUME FormInv, NEW in, F!SetInputs(in), InputsTyped(form.kind, in),
           form.kind = "message" /\ in.msg_type # "" => jsonMode'
    PROVE  FormInv'
<1> USE DEF F!SetInputs
<1>1. FormShape' /\ SavedSound'
  BY DEF FormInv, FormShape, SavedSound
<1>2. InputsSound'
  BY DEF InputsSound
<1>3. PostsSound'
  BY DEF FormInv, PostsSound, PostSound
<1>4. LastFits' /\ SettledFits'
  BY DEF FormInv, LastFits, LastAlone, SettledFits, Edits
<1> QED
  BY <1>1, <1>2, <1>3, <1>4 DEF FormInv

\* A field of the form for channels that is typed into.
LEMMA ChannelTyped ==
    ASSUME NEW in, InputsTyped("channel", in), NEW f, NEW v, f \in F!WithSeparators => IsSequence(v)
    PROVE  InputsTyped("channel", [in EXCEPT ![f] = v])
BY ChannelFieldsAre, FormFieldsAre DEF InputsTyped, FieldsTyped

\* Choosing a type, and typing into the form for channels.
LEMMA EditChannelKeeps == FormsAssumption /\ FormInv /\ F!EditChannel => FormInv'
<1> SUFFICES ASSUME FormsAssumption, FormInv, F!EditChannel PROVE FormInv'
  OBVIOUS
<1>1. form.kind = "channel" /\ InputsTyped("channel", inputs)
  BY DEF F!EditChannel, FormInv, InputsSound
<1>2. \A l \in Lists : IsSequence(l)
  BY DEF FormsAssumption, IsSequence
<1>3. CASE \E t \in Types : F!SetInputs([inputs EXCEPT !["type"] = t])
  <2>1. PICK t \in Types : F!SetInputs([inputs EXCEPT !["type"] = t])
    BY <1>3
  <2>2. "type" \notin F!WithSeparators
    BY ChannelFieldsAre
  <2>3. InputsTyped("channel", [inputs EXCEPT !["type"] = t])
    BY <1>1, <2>2, ChannelTyped
  <2> QED
    BY <1>1, <2>1, <2>3, InputsSet
<1>4. CASE \E f \in F!FieldsOf(inputs["type"]) :
             \E v \in (CASE f \in F!WithSeparators -> Lists [] f = "url" -> {"u", "u/"}
                         [] f = "other" -> {"json", "text"} [] OTHER -> Words) :
                 F!SetInputs([inputs EXCEPT ![f] = v])
  <2>1. PICK f, v :
             /\ v \in (CASE f \in F!WithSeparators -> Lists [] f = "url" -> {"u", "u/"}
                         [] f = "other" -> {"json", "text"} [] OTHER -> Words)
             /\ F!SetInputs([inputs EXCEPT ![f] = v])
    BY <1>4, Zenon
  <2>2. ASSUME f \in F!WithSeparators PROVE v \in Lists
    <3>1. f # "url" /\ f # "other"
      BY <2>2, ChannelFieldsAre
    <3> QED
      BY <2>1, <2>2, <3>1, Zenon
  <2>3. InputsTyped("channel", [inputs EXCEPT ![f] = v])
    BY <1>1, <1>2, <2>2, ChannelTyped
  <2>4. F!SetInputs([inputs EXCEPT ![f] = v])
    BY <2>1, Zenon
  <2> QED
    BY <1>1, <2>3, <2>4, InputsSet
<1> QED
  BY <1>3, <1>4, Zenon DEF F!EditChannel

\* Typing into the form for webhooks.
LEMMA EditWebhookKeeps == FormInv /\ F!EditWebhook => FormInv'
<1> SUFFICES ASSUME FormInv, F!EditWebhook PROVE FormInv'
  OBVIOUS
<1>1. form.kind = "webhook" /\ InputsTyped("webhook", inputs)
  BY DEF F!EditWebhook, FormInv, InputsSound
<1>2. ASSUME NEW in, DOMAIN in = DOMAIN inputs, F!SetInputs(in) PROVE FormInv'
  <2>1. InputsTyped("webhook", in)
    BY <1>1, <1>2 DEF InputsTyped, FieldsTyped
  <2> QED
    BY <1>1, <1>2, <2>1, InputsSet
<1> QED
  BY <1>2 DEF F!EditWebhook

\* Typing a message, and switching its mode, which sets its type.
LEMMA EditMessageKeeps == FormInv /\ F!EditMessage => FormInv'
<1> SUFFICES ASSUME FormInv, F!EditMessage PROVE FormInv'
  OBVIOUS
<1>1. form.kind = "message" /\ InputsTyped("message", inputs) /\ (inputs.msg_type # "" => jsonMode)
  BY DEF F!EditMessage, FormInv, InputsSound
<1>2. DOMAIN inputs = {"description", "content", "msg_type"}
  BY <1>1, FormFieldsAre, ColumnsAre, KindsApart DEF InputsTyped, FieldsTyped
<1>3. ASSUME NEW in, DOMAIN in = DOMAIN inputs, F!SetInputs(in), in.msg_type # "" => jsonMode'
      PROVE  FormInv'
  <2>1. InputsTyped("message", in)
    BY <1>1, <1>3 DEF InputsTyped, FieldsTyped
  <2> QED
    BY <1>1, <1>3, <2>1, InputsSet
<1>4. CASE \E c \in {"", "object", "text"} : F!SetInputs([inputs EXCEPT !.content = c]) /\ UNCHANGED jsonMode
  <2>1. PICK c : F!SetInputs([inputs EXCEPT !.content = c]) /\ UNCHANGED jsonMode
    BY <1>4
  <2>2. [inputs EXCEPT !.content = c].msg_type = inputs.msg_type
    BY <1>2
  <2> QED
    BY <1>1, <1>3, <2>1, <2>2
<1>5. CASE F!SetInputs([inputs EXCEPT !.description = "d"]) /\ UNCHANGED jsonMode
  <2>1. [inputs EXCEPT !.description = "d"].msg_type = inputs.msg_type
    BY <1>2
  <2> QED
    BY <1>1, <1>3, <1>5, <2>1
<1>6. CASE \E checked \in BOOLEAN :
             /\ F!SetInputs([inputs EXCEPT !.msg_type =
                              IF ~checked THEN "" ELSE IF @ = "" THEN "interactive" ELSE @])
             /\ jsonMode' = checked
  <2>1. PICK checked \in BOOLEAN :
             /\ F!SetInputs([inputs EXCEPT !.msg_type =
                              IF ~checked THEN "" ELSE IF @ = "" THEN "interactive" ELSE @])
             /\ jsonMode' = checked
    BY <1>6, Zenon
  <2> DEFINE in == [inputs EXCEPT !.msg_type = IF ~checked THEN "" ELSE IF @ = "" THEN "interactive" ELSE @]
  <2>2. DOMAIN in = DOMAIN inputs /\ (in.msg_type # "" => checked)
    BY <1>2
  <2>3. F!SetInputs(in) /\ jsonMode' = checked
    BY <2>1, Zenon
  <2> HIDE DEF in
  <2> QED
    BY <1>3, <2>2, <2>3
<1> QED
  BY <1>4, <1>5, <1>6, Zenon DEF F!EditMessage

\* Typing into the forms for users.
LEMMA EditUserKeeps == FormInv /\ F!EditUser => FormInv'
<1> SUFFICES ASSUME FormInv, F!EditUser PROVE FormInv'
  OBVIOUS
<1>1. form.kind \in F!Users /\ InputsTyped(form.kind, inputs)
  BY DEF F!EditUser, FormInv, InputsSound
<1>2. PICK f, v : F!SetInputs([inputs EXCEPT ![f] = v])
  BY Zenon DEF F!EditUser
<1>3. InputsTyped(form.kind, [inputs EXCEPT ![f] = v])
  BY <1>1, KindsApart DEF InputsTyped, FieldsTyped
<1> QED
  BY <1>1, <1>2, <1>3, InputsSet, KindsApart

\* The chat of Telegram is asked for.
LEMMA GetTelegramChatIdKeeps == FormInv /\ F!GetTelegramChatId => FormInv'
<1> SUFFICES ASSUME FormInv, F!GetTelegramChatId PROVE FormInv'
  OBVIOUS
<1>1. form.kind = "channel" /\ UNCHANGED <<saved, form, inputs, jsonMode, submits, settled>>
  BY DEF F!GetTelegramChatId
<1>2. PICK ask :
        /\ posts' = posts \cup {ask}
        /\ {"n", "op", "body", "done", "ok"} \subseteq DOMAIN ask /\ ask.op = "chat"
  BY AskIs DEF F!GetTelegramChatId
<1>3. FormShape' /\ SavedSound' /\ InputsSound'
  BY <1>1 DEF FormInv, FormShape, SavedSound, InputsSound
<1>4. PostsSound'
  <2>1. \A q \in posts : PostSound(q)'
    BY <1>1 DEF FormInv, PostsSound, PostSound
  <2>2. PostSound(ask)'
    BY <1>1, <1>2 DEF PostSound
  <2> QED
    BY <1>1, <1>2, <2>1, <2>2 DEF FormInv, PostsSound
<1>5. LastFits' /\ SettledFits'
  BY <1>1, <1>2 DEF FormInv, LastFits, LastAlone, SettledFits, Edits
<1> QED
  BY <1>3, <1>4, <1>5 DEF FormInv

\* The button is pressed: what is sent is sound.
LEMMA SubmitKeeps == FormInv /\ F!Submit => FormInv'
<1> SUFFICES ASSUME FormInv, F!Submit PROVE FormInv'
  OBVIOUS
<1>1. /\ ~form.loading /\ submits' = submits + 1 /\ ~settled'
      /\ UNCHANGED <<saved, form, inputs, jsonMode>>
      /\ F!Valid(form.kind, inputs)
  BY DEF F!Submit
<1>2. PICK save :
        /\ posts' = posts \cup {save}
        /\ {"n", "op", "body", "done", "ok", "alone"} \subseteq DOMAIN save
        /\ save.n = submits + 1 /\ save.op = "save" /\ ~save.done
        /\ save.body = F!LocalInputs(form.kind, inputs)
        /\ save.alone <=> posts = {}
  BY SaveIs DEF F!Submit
<1>3. InputsTyped(form.kind, save.body) /\ Sound(form.kind, form.id, save.body)
  BY <1>1, <1>2, LocalSound DEF FormInv, FormShape, InputsSound
<1>4. FormShape' /\ SavedSound' /\ InputsSound'
  <2>1. submits' \in Nat
    BY <1>1 DEF FormInv, FormShape
  <2> QED
    BY <1>1, <2>1 DEF FormInv, FormShape, SavedSound, InputsSound
<1>5. submits \in Nat /\ \A q \in posts : PostSound(q)
  BY DEF FormInv, FormShape, PostsSound
<1>6. PostsSound'
  <2>1. \A q \in posts : PostSound(q)'
    BY <1>1, <1>5 DEF PostSound
  <2>2. PostSound(save)'
    BY <1>1, <1>2, <1>3, <1>5 DEF PostSound
  <2> QED
    BY <1>1, <1>2, <2>1, <2>2 DEF FormInv, PostsSound
<1>7. LastFits'
  <2>1. \A q \in posts : ~LastAlone(q)'
    BY <1>1, <1>5 DEF PostSound, LastAlone
  <2>2. LastAlone(save)' => posts' = {save}
    BY <1>1, <1>2 DEF LastAlone
  <2> QED
    BY <1>1, <1>2, <2>1, <2>2 DEF LastFits
<1>8. SettledFits'
  BY <1>1 DEF SettledFits
<1> QED
  BY <1>4, <1>6, <1>7, <1>8 DEF FormInv

\* A request is answered: what remains is that the rows are sound.
LEMMA RequestAnswered ==
    ASSUME FormInv, NEW q \in posts, ~q.done, NEW ok \in BOOLEAN, NEW body, F!Answer(q, ok, body),
           UNCHANGED <<form, inputs, jsonMode, submits, settled>>,
           q.op = "get" /\ ok => RowTyped(form.kind, body),
           q.op = "save" /\ ok => body = q.body,
           Edits /\ q.op # "save" => saved'[1] = saved[1],
           Edits /\ q.op = "save" /\ ok => Fits(form.kind, saved'[1], body),
           SavedSound'
    PROVE  FormInv'
<1> DEFINE a == [q EXCEPT !.done = TRUE, !.ok = ok, !.body = body]
<1>1. PostSound(q) /\ \A r \in posts : PostSound(r)
  BY DEF FormInv, PostsSound
<1>2. posts' = (posts \ {q}) \cup {a}
  BY DEF F!Answer
<1>3. /\ DOMAIN a = DOMAIN q /\ a.op = q.op /\ a.n = q.n /\ a.done /\ a.ok = ok /\ a.body = body
      /\ q.op = "save" => a.alone = q.alone
  BY <1>1 DEF PostSound
<1> HIDE DEF a
<1>4. FormShape' /\ InputsSound'
  BY DEF FormInv, FormShape, InputsSound
<1>5. PostsSound'
  <2>1. \A r \in posts : PostSound(r)'
    BY <1>1 DEF PostSound
  <2>2. PostSound(a)'
    <3>1. a.op = "save" => ~form'.loading /\ "alone" \in DOMAIN a /\ a.n \in Nat /\ a.n <= submits'
      BY <1>1, <1>3 DEF PostSound
    <3>2. a.op = "save" /\ a.ok => InputsTyped(form'.kind, a.body) /\ Sound(form'.kind, form'.id, a.body)
      BY <1>1, <1>3 DEF PostSound
    <3>3. a.op = "get" => form'.loading /\ form'.id # 0 /\ (a.ok => RowTyped(form'.kind, a.body))
      BY <1>1, <1>3 DEF PostSound
    <3> QED
      BY <1>1, <1>3, <3>1, <3>2, <3>3 DEF PostSound
  <2>3. \A r \in posts \ {q} : ~(r.op = "get" /\ a.op = "get")
    BY <1>3 DEF FormInv, PostsSound
  <2> QED
    BY <1>2, <2>1, <2>2, <2>3 DEF FormInv, PostsSound
<1>6. LastFits'
  <2> SUFFICES ASSUME NEW r \in posts', LastAlone(r)'
               PROVE  /\ \A s \in posts' : s.op = "save" => s = r
                      /\ r.done /\ r.ok /\ Edits' => Fits(form'.kind, saved'[1], r.body)
    BY DEF LastFits
  <2>1. Edits' = Edits
    BY DEF Edits
  <2>2. CASE r = a
    <3>1. q.op = "save" /\ LastAlone(q)
      BY <1>3, <2>2 DEF LastAlone
    <3>2. \A s \in posts : s.op = "save" => s = q
      BY <3>1 DEF FormInv, LastFits
    <3> QED
      BY <1>2, <1>3, <2>1, <2>2, <3>1, <3>2
  <2>3. CASE r \in posts \ {q}
    <3>1. LastAlone(r)
      BY <2>3 DEF LastAlone
    <3>2. /\ \A s \in posts : s.op = "save" => s = r
          /\ r.done /\ r.ok /\ Edits => Fits(form.kind, saved[1], r.body)
      BY <2>3, <3>1 DEF FormInv, LastFits
    <3>3. q.op # "save"
      BY <2>3, <3>2
    <3> QED
      BY <1>2, <1>3, <2>1, <3>2, <3>3
  <2> QED
    BY <1>2, <2>2, <2>3
<1>7. SettledFits'
  <2> SUFFICES ASSUME settled
               PROVE  /\ ~form.loading /\ form.id # 0
                      /\ \A r \in posts' : r.op # "save"
                      /\ Edits => Fits(form.kind, saved'[1], F!LocalInputs(form.kind, inputs))
    BY DEF SettledFits, Edits
  <2>1. /\ ~form.loading /\ form.id # 0
        /\ \A r \in posts : r.op # "save"
        /\ Edits => Fits(form.kind, saved[1], F!LocalInputs(form.kind, inputs))
    BY DEF FormInv, SettledFits
  <2> QED
    BY <1>2, <1>3, <2>1
<1> QED
  BY <1>4, <1>5, <1>6, <1>7 DEF FormInv

\* Sequences that are extended, and their first element replaced.
LEMMA ExtendedIs ==
    ASSUME NEW s, IsSequence(s), NEW x
    PROVE  /\ IsSequence(Append(s, x))
           /\ \A i \in DOMAIN Append(s, x) : Append(s, x)[i] = x \/ (i \in DOMAIN s /\ Append(s, x)[i] = s[i])
           /\ 1 \in DOMAIN s => 1 \in DOMAIN Append(s, x) /\ Append(s, x)[1] = s[1]
<1>1. PICK M : s \in Seq(M)
  BY DEF IsSequence
<1>2. s \in Seq(M \cup {x})
  BY <1>1
<1>3. Append(s, x) \in Seq(M \cup {x})
  BY <1>2
<1> QED
  BY <1>1, <1>2, <1>3 DEF IsSequence

\* Its first element is replaced.
LEMMA ReplacedIs ==
    ASSUME NEW s, IsSequence(s), NEW x
    PROVE  /\ IsSequence([s EXCEPT ![1] = x])
           /\ DOMAIN [s EXCEPT ![1] = x] = DOMAIN s
           /\ \A i \in DOMAIN s : [s EXCEPT ![1] = x][i] = IF i = 1 THEN x ELSE s[i]
<1>1. PICK M : s \in Seq(M)
  BY DEF IsSequence
<1>2. s \in Seq(M \cup {x})
  BY <1>1
<1>3. DOMAIN s = 1 .. Len(s) /\ Len(s) \in Nat /\ \A i \in DOMAIN s : s[i] \in M \cup {x}
  BY <1>2
<1>4. [i \in 1 .. Len(s) |-> IF i = 1 THEN x ELSE s[i]] \in Seq(M \cup {x})
  BY <1>3
<1>5. [s EXCEPT ![1] = x] = [i \in 1 .. Len(s) |-> IF i = 1 THEN x ELSE s[i]]
  BY <1>3
<1> QED
  BY <1>3, <1>4, <1>5 DEF IsSequence

\* The server reads, updates or creates a row.
LEMMA ServeKeeps ==
    ASSUME FormInv, NEW q \in posts, F!Serve(q)
    PROVE  FormInv'
<1>1. ~q.done /\ UNCHANGED <<form, inputs, jsonMode, edits, submits, settled>>
  BY DEF F!Serve
<1>2. PostSound(q) /\ IsSequence(saved)
  BY DEF FormInv, PostsSound, SavedSound
<1>3. CASE q.op = "get" /\ F!Answer(q, TRUE, F!Read(form.kind, saved[1])) /\ UNCHANGED saved
  <2>1. RowTyped(form.kind, F!Read(form.kind, saved[1]))
    BY <1>2, <1>3, ReadTyped DEF PostSound, FormInv, FormShape, SavedSound
  <2>2. SavedSound'
    BY <1>1, <1>3 DEF FormInv, SavedSound
  <2> QED
    BY <1>1, <1>3, <2>1, <2>2, RequestAnswered
<1>4. CASE q.op = "chat" /\ F!Answer(q, TRUE, << >>) /\ UNCHANGED saved
  <2>1. SavedSound'
    BY <1>1, <1>4 DEF FormInv, SavedSound
  <2> QED
    BY <1>1, <1>4, <2>1, RequestAnswered
<1>5. CASE /\ q.op = "save" /\ form.id # 0 /\ form.kind # "message"
           /\ saved' = [saved EXCEPT ![1] = F!Updated(form.kind, @, q.body)]
           /\ \E ok \in BOOLEAN : F!Answer(q, ok, q.body)
  <2>1. PICK new :
          /\ saved' = [saved EXCEPT ![1] = new]
          /\ RowTyped(form.kind, new) /\ F!Promised(form.kind, new) /\ F!HasSecret(form.kind, new)
          /\ Fits(form.kind, new, q.body)
    <3>1. /\ 1 \in DOMAIN saved /\ RowTyped(form.kind, saved[1])
          /\ F!Promised(form.kind, saved[1]) /\ F!HasSecret(form.kind, saved[1])
      BY <1>5 DEF FormInv, SavedSound
    <3>2. InputsTyped(form.kind, q.body) /\ Sound(form.kind, form.id, q.body)
      BY <1>1, <1>2, <1>5 DEF PostSound
    <3>3. form.kind \in Kinds \ {"message"}
      BY <1>5 DEF FormInv, FormShape
    <3>4. saved' = [saved EXCEPT ![1] = F!Updated(form.kind, saved[1], q.body)]
      BY <1>5, Zenon
    <3> QED
      BY <3>1, <3>2, <3>3, <3>4, UpdatedSound, Zenon
  <2>2. /\ IsSequence(saved') /\ DOMAIN saved' = DOMAIN saved /\ 1 \in DOMAIN saved'
        /\ \A i \in DOMAIN saved : saved'[i] = IF i = 1 THEN new ELSE saved[i]
    <3>1. 1 \in DOMAIN saved
      BY <1>5 DEF FormInv, SavedSound
    <3>2. saved' = [saved EXCEPT ![1] = new]
      BY <2>1
    <3> QED
      BY <1>2, <3>1, <3>2, ReplacedIs
  <2>3. SavedSound'
    BY <1>1, <2>1, <2>2 DEF FormInv, SavedSound
  <2>4. Fits(form.kind, saved'[1], q.body)
    BY <2>1, <2>2
  <2>5. PICK ok \in BOOLEAN : F!Answer(q, ok, q.body)
    BY <1>5
  <2> QED
    BY <1>1, <1>5, <2>3, <2>4, <2>5, RequestAnswered
<1>6. CASE /\ q.op = "save" /\ (form.id = 0 \/ form.kind = "message")
           /\ saved' = Append(saved, F!Created(form.kind, q.body))
           /\ \E ok \in BOOLEAN : F!Answer(q, ok, q.body)
  <2>1. PICK new :
          /\ saved' = Append(saved, new)
          /\ RowTyped(form.kind, new) /\ F!Promised(form.kind, new)
    BY <1>1, <1>2, <1>6, CreatedSound DEF PostSound, FormInv, FormShape
  <2>2. /\ IsSequence(saved')
        /\ \A i \in DOMAIN saved' : saved'[i] = new \/ (i \in DOMAIN saved /\ saved'[i] = saved[i])
        /\ 1 \in DOMAIN saved => 1 \in DOMAIN saved' /\ saved'[1] = saved[1]
    BY <1>2, <2>1, ExtendedIs
  <2>3. SavedSound'
    BY <1>1, <2>1, <2>2 DEF FormInv, SavedSound
  <2>4. ~Edits
    BY <1>6 DEF Edits
  <2>5. PICK ok \in BOOLEAN : F!Answer(q, ok, q.body)
    BY <1>6
  <2> QED
    BY <1>1, <1>6, <2>3, <2>4, <2>5, RequestAnswered
<1> QED
  BY <1>3, <1>4, <1>5, <1>6, Zenon DEF F!Serve

\* A request is lost, or refused.
LEMMA RefuseKeeps ==
    ASSUME FormInv, NEW q \in posts, F!Refuse(q)
    PROVE  FormInv'
<1>1. SavedSound'
  BY DEF F!Refuse, FormInv, SavedSound
<1> QED
  BY <1>1, RequestAnswered DEF F!Refuse

\* The form shows what it has loaded.
LEMMA LoadAnsweredKeeps ==
    ASSUME FormInv, NEW q \in posts, F!LoadAnswered(q)
    PROVE  FormInv'
<1>1. /\ q.op = "get" /\ q.done /\ posts' = posts \ {q}
      /\ form' = [form EXCEPT !.loading = FALSE]
      /\ UNCHANGED <<saved, edits, submits, settled>>
  BY DEF F!LoadAnswered
<1>2. /\ form'.kind = form.kind /\ form'.id = form.id /\ ~form'.loading
      /\ form' = [kind |-> form'.kind, id |-> form'.id, loading |-> form'.loading]
  BY <1>1 DEF FormInv, FormShape
<1>3. /\ \A r \in posts : PostSound(r)
      /\ form.loading /\ form.id # 0
      /\ \A r \in posts : r.op \in {"get", "chat", "save"} /\ r.op # "save" /\ (r.op = "get" => r = q)
  BY <1>1 DEF FormInv, PostsSound, PostSound
<1>4. FormShape' /\ SavedSound'
  BY <1>1, <1>2 DEF FormInv, FormShape, SavedSound
<1>5. InputsSound'
  <2>1. CASE q.ok
    <3>1. inputs' = F!Loaded(form.kind, q.body) /\ jsonMode' = F!JsonModeAfterLoad(q.body)
      BY <2>1 DEF F!LoadAnswered
    <3>2. RowTyped(form.kind, q.body) /\ form.kind \in Kinds
      BY <1>1, <1>3, <2>1 DEF PostSound, FormInv, FormShape
    <3>3. InputsTyped(form.kind, inputs') /\ (form.kind = "message" => inputs' = q.body)
      BY <3>1, <3>2, LoadedTyped
    <3> QED
      BY <1>2, <3>1, <3>3 DEF InputsSound, F!JsonModeAfterLoad
  <2>2. CASE ~q.ok
    BY <1>2, <2>2 DEF F!LoadAnswered, FormInv, InputsSound
  <2> QED
    BY <2>1, <2>2
<1>6. PostsSound'
  BY <1>1, <1>2, <1>3 DEF PostsSound, PostSound
<1>7. LastFits'
  BY <1>1, <1>3 DEF LastFits, LastAlone
<1>8. SettledFits'
  BY <1>1, <1>3 DEF FormInv, SettledFits
<1> QED
  BY <1>4, <1>5, <1>6, <1>7, <1>8 DEF FormInv

\* The chat that was found is filled in, whatever was typed in between.
LEMMA ChatIdAnsweredKeeps ==
    ASSUME FormInv, NEW q \in posts, F!ChatIdAnswered(q)
    PROVE  FormInv'
<1>1. /\ q.op = "chat" /\ posts' = posts \ {q} /\ ~settled'
      /\ UNCHANGED <<saved, form, jsonMode, edits, submits>>
  BY DEF F!ChatIdAnswered
<1>2. form.kind = "channel" /\ InputsTyped("channel", inputs)
  BY <1>1 DEF FormInv, PostsSound, PostSound, InputsSound
<1>3. InputsTyped("channel", [inputs EXCEPT !["account_id"] = <<"id">>])
  BY <1>2, ChannelTyped, SequencesAre
<1>4. InputsTyped("channel", inputs')
  BY <1>2, <1>3 DEF F!ChatIdAnswered
<1>5. FormShape' /\ SavedSound' /\ InputsSound'
  BY <1>1, <1>2, <1>4 DEF FormInv, FormShape, SavedSound, InputsSound
<1>6. PostsSound'
  BY <1>1 DEF FormInv, PostsSound, PostSound
<1>7. LastFits' /\ SettledFits'
  BY <1>1 DEF FormInv, LastFits, LastAlone, SettledFits, Edits
<1> QED
  BY <1>5, <1>6, <1>7 DEF FormInv

\* The answer to a press: only the last one, alone, settles what is shown.
LEMMA SaveAnsweredKeeps ==
    ASSUME FormInv, NEW q \in posts, F!SaveAnswered(q)
    PROVE  FormInv'
<1>1. /\ q.op = "save" /\ q.done /\ posts' = posts \ {q}
      /\ UNCHANGED <<saved, form, edits, submits>>
  BY DEF F!SaveAnswered
<1>2. PostSound(q) /\ \A r \in posts : PostSound(r)
  BY DEF FormInv, PostsSound
<1>3. FormShape' /\ SavedSound'
  BY <1>1 DEF FormInv, FormShape, SavedSound
<1>4. InputsSound'
  <2>1. CASE q.ok /\ form.id = 0
    <3>1. inputs' = F!Origin(form.kind) /\ form.kind \in Kinds
      BY <2>1 DEF F!SaveAnswered, FormInv, FormShape
    <3> QED
      BY <1>1, <3>1, OriginTyped DEF InputsSound
  <2>2. CASE ~(q.ok /\ form.id = 0)
    BY <1>1, <2>2 DEF F!SaveAnswered, FormInv, InputsSound
  <2> QED
    BY <2>1, <2>2
<1>5. PostsSound'
  BY <1>1, <1>2 DEF FormInv, PostsSound, PostSound
<1>6. LastFits'
  BY <1>1 DEF FormInv, LastFits, LastAlone, Edits
<1>7. SettledFits'
  <2> SUFFICES ASSUME settled'
               PROVE  /\ ~form.loading /\ form.id # 0
                      /\ \A r \in posts' : r.op # "save"
                      /\ Edits => Fits(form.kind, saved[1], F!LocalInputs(form.kind, inputs'))
    BY <1>1 DEF SettledFits, Edits
  <2>1. /\ q.ok /\ form.id # 0 /\ q.alone /\ q.n = submits
        /\ q.body = F!LocalInputs(form.kind, inputs)
        /\ inputs' = inputs
    BY DEF F!SaveAnswered
  <2>2. LastAlone(q)
    BY <1>1, <2>1 DEF LastAlone
  <2>3. /\ \A r \in posts : r.op = "save" => r = q
        /\ Edits => Fits(form.kind, saved[1], q.body)
    BY <1>1, <2>1, <2>2 DEF FormInv, LastFits
  <2>4. ~form.loading
    BY <1>1, <1>2 DEF PostSound
  <2> QED
    BY <1>1, <2>1, <2>3, <2>4
<1> QED
  BY <1>3, <1>4, <1>5, <1>6, <1>7 DEF FormInv

----------------------------------------------------------------------------

\* A form is opened with nothing saved, or with a row saved earlier.
LEMMA FormInit == FormsAssumption /\ Init => FormInv
<1> SUFFICES ASSUME FormsAssumption, Init PROVE FormInv
  OBVIOUS
<1>1. CASE saved = << >> /\ F!Open("channel", 0)
  <2>1. IsSequence(saved) /\ DOMAIN saved = {}
    BY <1>1 DEF IsSequence
  <2> QED
    BY <1>1, <2>1, FormOpened, KindsApart
<1>2. CASE \E kind \in Kinds : \E item \in InitialItems[kind] :
              saved = <<item>> /\ ((kind \notin {"own", "push"} /\ F!Open(kind, 0)) \/ F!Open(kind, 1))
  <2>0. PICK kind \in Kinds : \E item \in InitialItems[kind] :
              saved = <<item>> /\ ((kind \notin {"own", "push"} /\ F!Open(kind, 0)) \/ F!Open(kind, 1))
    BY <1>2
  <2>1. PICK item \in InitialItems[kind] :
              saved = <<item>> /\ ((kind \notin {"own", "push"} /\ F!Open(kind, 0)) \/ F!Open(kind, 1))
    BY <2>0
  <2>2. PICK id \in {0, 1} : F!Open(kind, id) /\ (kind \in {"own", "push"} => id = 1)
    BY <2>1
  <2>3. IsSequence(saved) /\ DOMAIN saved = {1} /\ saved[1] = item
    <3>1. <<item>> \in Seq({item})
      OBVIOUS
    <3> QED
      BY <2>1, <3>1 DEF IsSequence
  <2>4. RowTyped(kind, item) /\ F!Promised(kind, item) /\ F!HasSecret(kind, item)
    BY RowIsTyped DEF FormsAssumption
  <2> QED
    BY <2>2, <2>3, <2>4, FormOpened
<1> QED
  BY <1>1, <1>2 DEF Init

\* Every step keeps the invariant of the form.
LEMMA FormNext == FormsAssumption /\ FormInv /\ [Next]_vars => FormInv'
<1> SUFFICES ASSUME FormsAssumption, FormInv, [Next]_vars PROVE FormInv'
  OBVIOUS
<1>1. CASE UNCHANGED formVars
  BY <1>1, FormUnchanged
<1>2. CASE F!FormAct
  BY <1>2, EditChannelKeeps, EditWebhookKeeps, EditMessageKeeps, EditUserKeeps, GetTelegramChatIdKeeps,
     SubmitKeeps, ServeKeeps, RefuseKeeps, LoadAnsweredKeeps, ChatIdAnsweredKeeps, SaveAnsweredKeeps, Zenon
     DEF F!FormAct
<1>3. CASE UNCHANGED vars
  BY <1>1, <1>3 DEF vars
<1> QED
  BY <1>1, <1>2, <1>3, Zenon DEF Next

\* The invariant of the form holds always.
LEMMA FormAlways == FormsAssumption => (Spec => []FormInv)
<1> SUFFICES ASSUME FormsAssumption PROVE Spec => []FormInv
  OBVIOUS
<1>1. Init => FormInv
  BY FormInit
<1>2. FormInv /\ [Next]_vars => FormInv'
  BY FormNext
<1> QED
  BY <1>1, <1>2, PTL DEF Spec

\* Whatever is typed and whichever answer fails or comes late, the forms save
\* what the server code accepts, and no save blanks a secret.
THEOREM SavedAlwaysUsable == FormsAssumption => (Spec => []SavedIsUsable)
BY FormAlways, FormInvImplies, PTL

\* A form that is opened again shows, and sends, what was saved from it.
THEOREM ReopenedAlwaysSame == FormsAssumption => (Spec => []ReopenedIsSame)
BY FormAlways, FormInvImplies, PTL

----------------------------------------------------------------------------
(* The settings: what is shown at rest is saved.                            *)

\* A set of naturals has a least member.
LEMMA LeastNatural ==
    ASSUME NEW M, M \subseteq Nat, M # {}
    PROVE  \E x \in M : \A y \in M : x <= y
  <1> DEFINE R == {ss \in Nat \X Nat : ss[1] < ss[2]}
  <1>1. IsWellFoundedOn(R, Nat)
    BY NatLessThanWellFounded DEF OpToRel
  <1>2. \A y, x \in Nat : y < x => <<y, x>> \in R
    OBVIOUS
  <1> HIDE DEF R
  <1>3. PICK x \in M : \A y \in M : ~ (<<y, x>> \in R)
    BY <1>1, WFMin
  <1>4. ASSUME NEW y \in M PROVE x <= y
    <2>1. x \in Nat /\ y \in Nat /\ ~ (<<y, x>> \in R)
      BY <1>3
    <2>2. ~ (y < x)
      BY <1>2, <2>1
    <2> QED
      BY <2>1, <2>2
  <1> QED
    BY <1>4

\* So its minimum is one of it: there is a first request as long as some are left.
LEMMA MinIs ==
    ASSUME NEW M, M \subseteq Nat, M # {}
    PROVE  S!Min(M) \in M
  <1>1. \E x \in M : \A y \in M : x <= y
    BY LeastNatural
  <1> QED
    BY <1>1 DEF S!Min

\* The page knows every option, and works as long as requests are left.
SettingTyped ==
    /\ DOMAIN values = S!Keys /\ S!Keys \subseteq DOMAIN options
    /\ S!Left \subseteq Nat
    /\ \A i \in S!Left : queue[i].key \in S!Keys
    /\ loading <=> S!Left # {}

\* An answer belongs to the request under way; a good one was preceded by the
\* change on the server.
AnswerFits ==
    /\ answer # "none" => S!Left # {}
    /\ answer = "ok" => options[S!UnderWay.key] = S!UnderWay.value

\* What ShownIsSaved says of one option.
Settled(k) ==
    \/ values[k] = options[k]
    \/ k \notin Always /\ values[k] = originInputs[k]
    \/ k \in Required /\ values[k] = ""

\* An option that is not saved is known as such or is among those left.
SavedOrLeft == \A k \in S!Keys \ unsaved : Settled(k) \/ \E i \in S!Left : queue[i].key = k

SettingInv == SettingTyped /\ AnswerFits /\ SavedOrLeft

\* At rest nothing is left.
LEMMA SettingInvImplies == SettingInv => ShownIsSaved
BY DEF SettingInv, SavedOrLeft, Settled, ShownIsSaved, S!ShownIsSaved

\* The steps of the other pages keep the invariant of the settings.
LEMMA SettingUnchanged == SettingInv /\ UNCHANGED settingVars => SettingInv'
<1> SUFFICES ASSUME SettingInv, UNCHANGED settingVars PROVE SettingInv'
  OBVIOUS
<1>1. /\ options' = options /\ values' = values /\ originInputs' = originInputs
      /\ loading' = loading /\ queue' = queue /\ answer' = answer /\ unsaved' = unsaved
  BY DEF settingVars
<1>2. S!Left' = S!Left /\ S!UnderWay' = S!UnderWay
  BY <1>1 DEF S!Left, S!UnderWay
<1>3. SettingTyped' /\ AnswerFits'
  BY <1>1, <1>2 DEF SettingInv, SettingTyped, AnswerFits
<1>4. SavedOrLeft'
  BY <1>1, <1>2 DEF SettingInv, SavedOrLeft, Settled
<1> QED
  BY <1>3, <1>4 DEF SettingInv

\* The page is opened with what the server tells; what it does not tell is not
\* sent without a comparison.
LEMMA SettingInit == SettingsAssumption /\ Init => SettingInv
<1> SUFFICES ASSUME SettingsAssumption, Init PROVE SettingInv
  OBVIOUS
<1>0. S!Open /\ options = InitialOptions
  BY DEF Init
<1>1. S!Left = {}
  BY <1>0 DEF S!Open, S!Left
<1>2. values = S!GetOptions(options) /\ originInputs = values /\ DOMAIN values = S!Keys
  BY <1>0 DEF S!Open, S!GetOptions
<1>3. \A k \in S!Keys : Settled(k)
  BY <1>0, <1>2 DEF SettingsAssumption, Settled, S!GetOptions
<1> QED
  BY <1>0, <1>1, <1>2, <1>3 DEF SettingsAssumption, SettingInv, SettingTyped, AnswerFits, SavedOrLeft, S!Open

\* What is typed is not saved, also while requests are under way.
LEMMA TypeKeeps ==
    ASSUME SettingInv, NEW k \in S!Fields, NEW v \in Texts, S!Type(k, v)
    PROVE  SettingInv'
<1>1. /\ values' = [values EXCEPT ![k] = v] /\ unsaved' = unsaved \cup {k}
      /\ options' = options /\ originInputs' = originInputs /\ loading' = loading
      /\ queue' = queue /\ answer' = answer
  BY DEF S!Type
<1>2. DOMAIN values' = DOMAIN values /\ \A j \in S!Keys \ {k} : values'[j] = values[j]
  BY <1>1 DEF SettingInv, SettingTyped
<1>3. \A j \in S!Keys \ {k} : Settled(j) => Settled(j)'
  BY <1>1, <1>2 DEF Settled
<1>4. SavedOrLeft'
  BY <1>1, <1>3 DEF SettingInv, SavedOrLeft, S!Left
<1> QED
  BY <1>1, <1>2, <1>4 DEF SettingInv, SettingTyped, AnswerFits, S!Left, S!UnderWay

\* A switch is the only one left.
LEMMA ToggleKeeps ==
    ASSUME SettingInv, NEW k \in Switches, S!Toggle(k)
    PROVE  SettingInv'
<1> DEFINE v == IF values[k] = "true" THEN "false" ELSE "true"
<1>1. /\ ~loading /\ loading' = TRUE /\ queue' = <<[key |-> k, value |-> v]>>
      /\ UNCHANGED <<options, values, originInputs, answer, unsaved>>
  BY DEF S!Toggle
<1>2. S!Left = {} /\ answer = "none"
  BY <1>1 DEF SettingInv, SettingTyped, AnswerFits
<1>3. S!Left' = {1} /\ queue'[1].key = k
  BY <1>1 DEF S!Left
<1>4. \A j \in S!Keys : Settled(j) => Settled(j)'
  BY <1>1 DEF Settled
<1>5. SavedOrLeft'
  BY <1>1, <1>2, <1>4 DEF SettingInv, SavedOrLeft
<1> QED
  BY <1>1, <1>2, <1>3, <1>5 DEF SettingInv, SettingTyped, AnswerFits, S!Keys

\* The fields of the group are left, or are as the page was opened, or blank.
LEMMA SubmitGroupKeeps ==
    ASSUME SettingsAssumption, SettingInv, NEW g \in DOMAIN Groups, S!SubmitGroup(g)
    PROVE  SettingInv'
<1> DEFINE G == Groups[g]
           sent == {i \in DOMAIN G : S!ToSend(G[i])}
<1>1. /\ ~loading /\ loading' = (sent # {})
      /\ queue' = [i \in sent |-> [key |-> G[i], value |-> S!Normal(G[i], values[G[i]])]]
      /\ unsaved' = unsaved \ S!ToSet(G)
      /\ UNCHANGED <<options, values, originInputs, answer>>
  BY DEF S!SubmitGroup
<1>2. S!Left = {} /\ answer = "none"
  BY <1>1 DEF SettingInv, SettingTyped, AnswerFits
<1>3. S!Left' = sent /\ \A i \in sent : queue'[i].key = G[i]
  BY <1>1 DEF S!Left
<1>4. DOMAIN G \subseteq Nat /\ \A i \in DOMAIN G : G[i] \in S!Keys
  <2>1. G \in Seq(S!ToSet(G))
    BY DEF SettingsAssumption
  <2>2. DOMAIN G = 1 .. Len(G) /\ Len(G) \in Nat
    BY <2>1
  <2> QED
    BY <2>2 DEF S!Keys, S!Fields, S!ToSet
<1>5. \A j \in S!Keys : Settled(j) => Settled(j)'
  BY <1>1 DEF Settled
<1>6. ASSUME NEW j \in S!Keys \ unsaved'
      PROVE  Settled(j)' \/ \E i \in S!Left' : queue'[i].key = j
  <2>1. CASE j \notin S!ToSet(G)
    BY <1>1, <1>2, <1>5, <1>6, <2>1 DEF SettingInv, SavedOrLeft
  <2>2. CASE j \in S!ToSet(G)
    <3>1. PICK i \in DOMAIN G : G[i] = j
      BY <2>2 DEF S!ToSet
    <3>2. CASE S!ToSend(j)
      BY <1>3, <3>1, <3>2
    <3>3. CASE ~S!ToSend(j)
      BY <1>1, <3>3 DEF S!ToSend, Settled
    <3> QED
      BY <3>2, <3>3
  <2> QED
    BY <2>1, <2>2
<1>7. SavedOrLeft'
  BY <1>6 DEF SavedOrLeft
<1>8. SettingTyped'
  BY <1>1, <1>3, <1>4 DEF SettingInv, SettingTyped
<1>9. AnswerFits'
  BY <1>1, <1>2 DEF AnswerFits
<1> QED
  BY <1>7, <1>8, <1>9 DEF SettingInv

\* The request under way is one of those left and is about an option of the page.
LEMMA UnderWayIs ==
    ASSUME SettingTyped, S!Left # {}
    PROVE  S!Min(S!Left) \in S!Left /\ S!UnderWay.key \in S!Keys
BY MinIs DEF SettingTyped, S!UnderWay

\* The server changes the option under way only, which is left until the answer.
LEMMA ServeOptionKeeps == SettingInv /\ S!ServeOption => SettingInv'
<1> SUFFICES ASSUME SettingInv, S!ServeOption PROVE SettingInv'
  OBVIOUS
<1> DEFINE k == S!UnderWay.key
<1>1. /\ S!Left # {} /\ UNCHANGED <<values, originInputs, loading, queue, unsaved>>
      /\ \/ options' = [options EXCEPT ![k] = S!UnderWay.value]
         \/ options' = options /\ answer' = "failed"
  BY DEF S!ServeOption
<1>2. S!Min(S!Left) \in S!Left /\ k \in S!Keys /\ queue[S!Min(S!Left)].key = k
  BY <1>1, UnderWayIs DEF SettingInv, S!UnderWay
<1>3. /\ DOMAIN options' = DOMAIN options
      /\ \A j \in S!Keys \ {k} : options'[j] = options[j]
      /\ answer' # "failed" => options'[k] = S!UnderWay.value
  BY <1>1, <1>2 DEF SettingInv, SettingTyped
<1>4. S!Left' = S!Left /\ S!UnderWay' = S!UnderWay
  BY <1>1 DEF S!Left, S!UnderWay
<1>5. \A j \in S!Keys \ {k} : Settled(j) => Settled(j)'
  BY <1>1, <1>3 DEF Settled
<1>6. SavedOrLeft'
  BY <1>1, <1>2, <1>4, <1>5 DEF SettingInv, SavedOrLeft
<1>7. AnswerFits'
  BY <1>1, <1>3, <1>4 DEF AnswerFits
<1> QED
  BY <1>1, <1>3, <1>4, <1>6, <1>7 DEF SettingInv, SettingTyped

\* A good answer puts the value that was sent, and saved, over what was typed
\* meanwhile; a bad one makes the option one that is not saved.
LEMMA OptionAnsweredKeeps == SettingInv /\ S!OptionAnswered => SettingInv'
<1> SUFFICES ASSUME SettingInv, S!OptionAnswered PROVE SettingInv'
  OBVIOUS
<1>0. PICK k, m, v : k = S!UnderWay.key /\ m = S!Min(S!Left) /\ v = S!UnderWay.value
  OBVIOUS
<1>1. /\ answer # "none" /\ answer' = "none"
      /\ values' = IF answer = "ok" THEN [values EXCEPT ![k] = v] ELSE values
      /\ unsaved' = IF answer = "ok" THEN unsaved \ {k} ELSE unsaved \cup {k}
      /\ queue' = S!Restrict(queue, S!Left \ {m})
      /\ loading' = (S!Left \ {m} # {})
      /\ options' = options /\ originInputs' = originInputs
  BY <1>0 DEF S!OptionAnswered
<1>2. S!Left # {} /\ m \in S!Left /\ k \in S!Keys /\ queue[m].key = k
  BY <1>0, <1>1, UnderWayIs DEF SettingInv, AnswerFits, S!UnderWay
<1>3. S!Left' = S!Left \ {m} /\ \A i \in S!Left \ {m} : queue'[i] = queue[i]
  BY <1>1 DEF S!Left, S!Restrict
<1>4. /\ DOMAIN values' = DOMAIN values
      /\ \A j \in S!Keys \ {k} : values'[j] = values[j]
      /\ answer = "ok" => values'[k] = v
  BY <1>1, <1>2 DEF SettingInv, SettingTyped
<1>5. \A j \in S!Keys \ {k} : Settled(j) => Settled(j)'
  BY <1>1, <1>4 DEF Settled
<1>6. answer = "ok" => Settled(k)'
  BY <1>0, <1>1, <1>4 DEF SettingInv, AnswerFits, Settled
<1>7. ASSUME NEW j \in S!Keys \ unsaved'
      PROVE  Settled(j)' \/ \E i \in S!Left' : queue'[i].key = j
  <2>1. CASE j = k
    BY <1>1, <1>6, <1>7, <2>1
  <2>2. CASE j # k
    <3>1. Settled(j) \/ \E i \in S!Left : queue[i].key = j
      BY <1>1, <1>7, <2>2 DEF SettingInv, SavedOrLeft
    <3> QED
      BY <1>2, <1>3, <1>5, <2>2, <3>1
  <2> QED
    BY <2>1, <2>2
<1>8. SavedOrLeft'
  BY <1>7 DEF SavedOrLeft
<1>9. SettingTyped'
  BY <1>1, <1>3, <1>4 DEF SettingInv, SettingTyped
<1>10. AnswerFits'
  BY <1>1 DEF AnswerFits
<1> QED
  BY <1>8, <1>9, <1>10 DEF SettingInv

\* Every step keeps the invariant of the settings.
LEMMA SettingNext == SettingsAssumption /\ SettingInv /\ [Next]_vars => SettingInv'
<1> SUFFICES ASSUME SettingsAssumption, SettingInv, [Next]_vars PROVE SettingInv'
  OBVIOUS
<1>1. CASE UNCHANGED settingVars
  BY <1>1, SettingUnchanged
<1>2. CASE S!SettingAct
  BY <1>2, TypeKeeps, ToggleKeeps, SubmitGroupKeeps, ServeOptionKeeps, OptionAnsweredKeeps, Zenon
     DEF S!SettingAct
<1>3. CASE UNCHANGED vars
  BY <1>1, <1>3 DEF vars
<1> QED
  BY <1>1, <1>2, <1>3, Zenon DEF Next

\* The invariant of the settings holds always.
LEMMA SettingAlways == SettingsAssumption => (Spec => []SettingInv)
<1> SUFFICES ASSUME SettingsAssumption PROVE Spec => []SettingInv
  OBVIOUS
<1>1. Init => SettingInv
  BY SettingInit
<1>2. SettingInv /\ [Next]_vars => SettingInv'
  BY SettingNext
<1> QED
  BY <1>1, <1>2, PTL DEF Spec

\* Settings at rest show what the server has, whatever is typed while requests
\* are under way and whichever of them fail (SystemSetting.jsx, OtherSetting.jsx).
THEOREM ShownAlwaysSaved == SettingsAssumption => (Spec => []ShownIsSaved)
BY SettingAlways, SettingInvImplies, PTL

----------------------------------------------------------------------------
(* The tables.                                                              *)

\* Ordering a set: as many of its members come before a member as its place
\* says, and for each place there is one.
LEMMA RankedIs ==
    ASSUME NEW M, IsFiniteSet(M), NEW Above,
           \A x \in M : Above[x] \in SUBSET M /\ x \notin Above[x],
           \A x, z \in M : x \in Above[z] => Above[x] \in SUBSET Above[z],
           \A x, z \in M : x = z \/ x \in Above[z] \/ z \in Above[x]
    PROVE  /\ \A x \in M : Cardinality(Above[x]) \in 0 .. (Cardinality(M) - 1)
           /\ \A x, z \in M : Cardinality(Above[x]) = Cardinality(Above[z]) => x = z
           /\ \A i \in 1 .. Cardinality(M) : \E x \in M : Cardinality(Above[x]) = i - 1
<1> DEFINE n == Cardinality(M)
<1> DEFINE f == [x \in M |-> Cardinality(Above[x])]
<1>1. n \in Nat
  BY FS_CardinalityType
<1> HIDE DEF n
<1>5. \A x \in M : IsFiniteSet(Above[x]) /\ Cardinality(Above[x]) \in 0 .. (n - 1)
  <2> TAKE x \in M
  <2>1. IsFiniteSet(Above[x]) /\ Cardinality(Above[x]) <= n /\ (n = Cardinality(Above[x]) => M = Above[x])
    BY FS_Subset DEF n
  <2>2. Cardinality(Above[x]) \in Nat
    BY <2>1, FS_CardinalityType
  <2>3. n # Cardinality(Above[x])
    BY <2>1
  <2> QED
    BY <1>1, <2>1, <2>2, <2>3
<1>6. \A x, z \in M : x \in Above[z] => Cardinality(Above[x]) # Cardinality(Above[z])
  <2> SUFFICES ASSUME NEW x \in M, NEW z \in M, x \in Above[z], Cardinality(Above[x]) = Cardinality(Above[z])
               PROVE  FALSE
    OBVIOUS
  <2>1. Above[x] \in SUBSET Above[z] /\ x \notin Above[x]
    OBVIOUS
  <2>2. IsFiniteSet(Above[z])
    BY <1>5
  <2>3. Above[z] = Above[x]
    BY <2>1, <2>2, FS_Subset
  <2> QED
    BY <2>1, <2>3
<1>7. \A x, z \in M : Cardinality(Above[x]) = Cardinality(Above[z]) => x = z
  BY <1>6
<1>8. f \in Injection(M, 0 .. (n - 1))
  <2>1. f \in [M -> 0 .. (n - 1)] /\ \A a, b \in M : f[a] = f[b] => a = b
    BY <1>5, <1>7
  <2> QED
    BY <2>1, Zenon DEF Injection, IsInjective
<1>9. IsFiniteSet(0 .. (n - 1)) /\ Cardinality(0 .. (n - 1)) = n
  <2>1. 0 \in Int /\ n - 1 \in Int
    BY <1>1
  <2>2. IsFiniteSet(0 .. (n - 1))
        /\ Cardinality(0 .. (n - 1)) = IF 0 > n - 1 THEN 0 ELSE (n - 1) - 0 + 1
    BY <2>1, FS_Interval
  <2> QED
    BY <2>2, <1>1
<1>10. f \in Surjection(M, 0 .. (n - 1))
  <2>1. Cardinality(M) = Cardinality(0 .. (n - 1))
    BY <1>9 DEF n
  <2> HIDE DEF f
  <2> QED
    BY <2>1, <1>8, <1>9, FS_Injection
<1>11. \A i \in 1 .. n : \E x \in M : Cardinality(Above[x]) = i - 1
  <2> TAKE i \in 1 .. n
  <2>1. i - 1 \in 0 .. (n - 1)
    BY <1>1
  <2>2. \E x \in M : f[x] = i - 1
    BY <1>10, <2>1 DEF Surjection
  <2> QED
    BY <2>2
<1> QED
  BY <1>5, <1>7, <1>11 DEF n

\* The cardinality of AdminTable is that of FiniteSets.
LEMMA CardinalityIs == ASSUME NEW M PROVE T!Cardinality(M) = Cardinality(M)
BY DEF T!Cardinality, Cardinality

\* The ids of a table, the newest first: each in one place, after as many as are newer.
LEMMA NewestFirstIs ==
    ASSUME NEW ids \in SUBSET Nat, IsFiniteSet(ids)
    PROVE  /\ T!NewestFirst(ids) \in Seq(ids) /\ Len(T!NewestFirst(ids)) = Cardinality(ids)
           /\ \A i \in 1 .. Cardinality(ids) :
                  /\ T!NewestFirst(ids)[i] \in ids
                  /\ Cardinality({y \in ids : y > T!NewestFirst(ids)[i]}) = i - 1
<1> DEFINE n == Cardinality(ids)
<1> DEFINE Above == [x \in ids |-> {y \in ids : y > x}]
<1> DEFINE g == T!NewestFirst(ids)
<1>1. n \in Nat
  BY FS_CardinalityType
<1> DEFINE Rank(x) == T!Cardinality({y \in ids : y > x})
<1>2. g = [i \in 1 .. n |-> CHOOSE x \in ids : Rank(x) = i - 1]
  <2>1. g = [i \in 1 .. T!Cardinality(ids) |-> CHOOSE x \in ids : Rank(x) = i - 1]
    BY DEF T!NewestFirst, T!Ranked
  <2>2. T!Cardinality(ids) = n
    BY CardinalityIs
  <2> QED
    BY <2>1, <2>2
<1>3. \A x \in ids : Rank(x) = Cardinality(Above[x])
  <2> TAKE x \in ids
  <2>1. Above[x] = {y \in ids : y > x}
    OBVIOUS
  <2> QED
    BY <2>1, CardinalityIs
<1>4. \A x \in ids : Above[x] \in SUBSET ids /\ x \notin Above[x]
  OBVIOUS
<1>5. \A x, z \in ids : x \in Above[z] <=> x > z
  OBVIOUS
<1>6. \A i \in 1 .. n : \E x \in ids : Cardinality(Above[x]) = i - 1
  <2> HIDE DEF Above
  <2>1. \A x, z \in ids : x \in Above[z] => Above[x] \in SUBSET Above[z]
    BY <1>4, <1>5
  <2>2. \A x, z \in ids : x = z \/ x \in Above[z] \/ z \in Above[x]
    BY <1>5
  <2> QED
    BY <1>4, <2>1, <2>2, RankedIs
<1> HIDE DEF g, Above, Rank, n
<1>7. \A i \in 1 .. n : g[i] \in ids /\ Rank(g[i]) = i - 1
  <2> TAKE i \in 1 .. n
  <2>1. \E x \in ids : Rank(x) = i - 1
    BY <1>3, <1>6
  <2>2. g[i] = CHOOSE x \in ids : Rank(x) = i - 1
    BY <1>2
  <2> QED
    BY <2>1, <2>2
<1>8. g \in Seq(ids) /\ Len(g) = n
  BY <1>1, <1>2, <1>7
<1>9. \A i \in 1 .. n : g[i] \in ids /\ Cardinality({y \in ids : y > g[i]}) = i - 1
  <2> TAKE i \in 1 .. n
  <2>1. Rank(g[i]) = Cardinality({y \in ids : y > g[i]})
    BY CardinalityIs DEF Rank
  <2> QED
    BY <2>1, <1>7
<1> QED
  BY <1>8, <1>9 DEF g, n

\* The rows of an array.
LEMMA RowsOfArray ==
    ASSUME NEW S0, NEW s \in Seq(S0)
    PROVE  /\ T!ToSet(s) \in SUBSET S0
           /\ \A o : o \in T!ToSet(s) <=> \E i \in 1 .. Len(s) : s[i] = o
BY DEF T!ToSet

\* Sorting an array keeps its rows.
LEMMA SortedIs ==
    ASSUME NEW a \in Seq([from : Nat, id : Nat])
    PROVE  /\ T!SortedById(a) \in Seq([from : Nat, id : Nat])
           /\ Len(T!SortedById(a)) = Len(a)
           /\ T!ToSet(T!SortedById(a)) = T!ToSet(a)
<1> DEFINE n == Len(a)
<1> DEFINE D == 1 .. n
<1> DEFINE Objs == [from : Nat, id : Nat]
<1> DEFINE Before(j, i) == a[j].id < a[i].id \/ (a[j].id = a[i].id /\ j < i)
<1> DEFINE order == T!Ranked(DOMAIN a, Before)
<1> DEFINE Rank(x) == T!Cardinality({j \in D : Before(j, x)})
<1> DEFINE Above == [i \in D |-> {j \in D : Before(j, i)}]
<1>1. n \in Nat /\ IsFiniteSet(D) /\ Cardinality(D) = n
  <2>1. n \in Nat /\ 1 \in Int /\ n \in Int
    OBVIOUS
  <2> HIDE DEF n
  <2>2. IsFiniteSet(1 .. n) /\ Cardinality(1 .. n) = IF 1 > n THEN 0 ELSE n - 1 + 1
    BY <2>1, FS_Interval
  <2> QED
    BY <2>1, <2>2
<1>2. DOMAIN a = D /\ \A i \in D : a[i] \in Objs
  <2> HIDE DEF Objs
  <2>1. a \in Seq(Objs)
    BY DEF Objs
  <2> QED
    BY <2>1
<1>id. \A i \in D : a[i].id \in Nat
  BY <1>2
<1>3. order = [i \in 1 .. n |-> CHOOSE x \in D : Rank(x) = i - 1]
  <2>1. order = [i \in 1 .. T!Cardinality(DOMAIN a) |->
                    CHOOSE x \in DOMAIN a : T!Cardinality({j \in DOMAIN a : Before(j, x)}) = i - 1]
    BY DEF T!Ranked
  <2>2. T!Cardinality(D) = n
    BY <1>1, CardinalityIs
  <2> HIDE DEF D, n
  <2> QED
    BY <2>1, <2>2, <1>2, Zenon
<1>4. \A x \in D : Rank(x) = Cardinality(Above[x])
  <2> TAKE x \in D
  <2>1. Above[x] = {y \in D : Before(y, x)}
    OBVIOUS
  <2> QED
    BY <2>1, CardinalityIs
<1>5. \A j, i \in D : j \in Above[i] <=> Before(j, i)
  OBVIOUS
<1>6. \A i \in D : Above[i] \in SUBSET D
  OBVIOUS
<1>7. T!SortedById(a) = [i \in DOMAIN a |-> a[order[i]]]
  BY Zenon DEF T!SortedById
<1> HIDE DEF Above, order, Rank, D, n, Objs
<1> DEFINE id == [i \in D |-> a[i].id]
<1>ids. id \in [D -> Nat] /\ \A j, i \in D : j \in Above[i] <=> id[j] < id[i] \/ (id[j] = id[i] /\ j < i)
  BY <1>id, <1>5
<1> HIDE DEF Before, id
<1>int. D \in SUBSET Int
  BY <1>1 DEF D
<1>8. \A x \in D : Above[x] \in SUBSET D /\ x \notin Above[x]
  BY <1>ids, <1>6, <1>int
<1>9. /\ \A x \in D : Cardinality(Above[x]) \in 0 .. (n - 1)
      /\ \A x, z \in D : Cardinality(Above[x]) = Cardinality(Above[z]) => x = z
      /\ \A i \in 1 .. n : \E x \in D : Cardinality(Above[x]) = i - 1
  <2>1. \A x, z \in D : x \in Above[z] => Above[x] \in SUBSET Above[z]
    <3> SUFFICES ASSUME NEW x \in D, NEW z \in D, x \in Above[z], NEW w \in Above[x]
                 PROVE  w \in Above[z]
      OBVIOUS
    <3>1. w \in D
      BY <1>6
    <3>2. w \in Int /\ x \in Int /\ z \in Int /\ id[w] \in Nat /\ id[x] \in Nat /\ id[z] \in Nat
      BY <1>ids, <1>int, <3>1
    <3>3. /\ id[w] < id[x] \/ (id[w] = id[x] /\ w < x)
          /\ id[x] < id[z] \/ (id[x] = id[z] /\ x < z)
      BY <1>ids, <3>1
    <3>4. id[w] < id[z] \/ (id[w] = id[z] /\ w < z)
      BY <3>2, <3>3
    <3> QED
      BY <1>ids, <3>1, <3>4
  <2>2. \A x, z \in D : x = z \/ x \in Above[z] \/ z \in Above[x]
    BY <1>ids, <1>int
  <2>3. IsFiniteSet(D)
    BY <1>1
  <2>4. /\ \A x \in D : Cardinality(Above[x]) \in 0 .. (Cardinality(D) - 1)
        /\ \A x, z \in D : Cardinality(Above[x]) = Cardinality(Above[z]) => x = z
        /\ \A i \in 1 .. Cardinality(D) : \E x \in D : Cardinality(Above[x]) = i - 1
    BY <1>8, <2>1, <2>2, <2>3, RankedIs
  <2> QED
    BY <1>1, <2>4
<1>10. \A i \in D : order[i] \in D /\ Rank(order[i]) = i - 1
  <2> TAKE i \in D
  <2>1. \E x \in D : Rank(x) = i - 1
    BY <1>4, <1>9 DEF D
  <2>2. order[i] = CHOOSE x \in D : Rank(x) = i - 1
    BY <1>3 DEF D
  <2> QED
    BY <2>1, <2>2
<1>11. \A x \in D : \E i \in D : order[i] = x
  <2> TAKE x \in D
  <2>1. Rank(x) \in 0 .. (n - 1)
    BY <1>4, <1>9
  <2>2. Rank(x) + 1 \in D /\ (Rank(x) + 1) - 1 = Rank(x)
    BY <2>1, <1>1 DEF D
  <2>3. order[Rank(x) + 1] \in D /\ Rank(order[Rank(x) + 1]) = Rank(x)
    BY <1>10, <2>2
  <2>4. order[Rank(x) + 1] = x
    BY <1>4, <1>9, <2>3
  <2> QED
    BY <2>2, <2>4
<1> DEFINE s == T!SortedById(a)
<1>12. s = [i \in 1 .. n |-> a[order[i]]] /\ DOMAIN a = D
  BY <1>2, <1>7 DEF D
<1> HIDE DEF s
<1>13. \A i \in D : s[i] = a[order[i]] /\ s[i] \in Objs
  BY <1>2, <1>10, <1>12 DEF D
<1>14. s \in Seq(Objs) /\ Len(s) = n
  BY <1>1, <1>12, <1>13 DEF D
<1>15. DOMAIN s = D
  BY <1>12 DEF D
<1>16. T!ToSet(s) = T!ToSet(a)
  <2>1. T!ToSet(s) = {s[i] : i \in D}
    BY <1>15 DEF T!ToSet
  <2>2. T!ToSet(a) = {a[i] : i \in D}
    BY <1>12 DEF T!ToSet
  <2>3. \A i \in D : order[i] \in D /\ s[i] = a[order[i]]
    BY <1>10, <1>13
  <2> HIDE DEF D, order
  <2>4. {s[i] : i \in D} \subseteq {a[i] : i \in D}
    BY <2>3
  <2>5. {a[i] : i \in D} \subseteq {s[i] : i \in D}
    BY <2>3, <1>11
  <2> QED
    BY <2>1, <2>2, <2>4, <2>5
<1> QED
  BY <1>14, <1>16 DEF s, n, Objs

\* So does turning it round.
LEMMA ReversedIs ==
    ASSUME NEW S0, NEW s \in Seq(S0)
    PROVE  T!Reverse(s) \in Seq(S0) /\ Len(T!Reverse(s)) = Len(s) /\ T!ToSet(T!Reverse(s)) = T!ToSet(s)
<1>1. /\ T!Reverse(s) = [i \in 1 .. Len(s) |-> s[(Len(s) - i) + 1]]
      /\ T!Reverse(s) \in Seq(S0) /\ Len(T!Reverse(s)) = Len(s)
  BY DEF T!Reverse
<1>2. \A i \in 1 .. Len(s) : (Len(s) - i) + 1 \in 1 .. Len(s) /\ (Len(s) - ((Len(s) - i) + 1)) + 1 = i
  OBVIOUS
<1>3. \A o : o \in T!ToSet(T!Reverse(s)) <=> o \in T!ToSet(s)
  <2>1. \A o : o \in T!ToSet(s) <=> \E i \in 1 .. Len(s) : s[i] = o
    BY RowsOfArray
  <2>2. \A o : o \in T!ToSet(T!Reverse(s)) <=> \E i \in 1 .. Len(s) : T!Reverse(s)[i] = o
    BY <1>1, RowsOfArray
  <2>3. \A i \in 1 .. Len(s) : T!Reverse(s)[i] = s[(Len(s) - i) + 1]
    BY <1>1
  <2> QED
    BY <1>2, <2>1, <2>2, <2>3
<1> QED
  BY <1>1, <1>3

----------------------------------------------------------------------------
\* A page of the table: rows of it, different ones, in their places.
LEMMA PageOfIs ==
    ASSUME NEW ids \in SUBSET Nat, IsFiniteSet(ids), NEW p \in Nat, ItemsPerPage \in Nat
    PROVE  /\ T!PageOf(ids, p) \in Seq(ids)
           /\ \A i \in DOMAIN T!PageOf(ids, p) :
                  Cardinality({y \in ids : y > T!PageOf(ids, p)[i]}) = p * ItemsPerPage + i - 1
<1> DEFINE s == T!NewestFirst(ids)
<1> DEFINE m == p * ItemsPerPage + 1
<1> DEFINE n == IF (p + 1) * ItemsPerPage < Cardinality(ids) THEN (p + 1) * ItemsPerPage ELSE Cardinality(ids)
<1> DEFINE Rank(x) == Cardinality({y \in ids : y > x})
<1>1. /\ s \in Seq(ids) /\ Len(s) = Cardinality(ids)
      /\ \A i \in 1 .. Len(s) : s[i] \in ids /\ Rank(s[i]) = i - 1
  BY NewestFirstIs
<1>2. Cardinality(ids) \in Nat
  BY FS_CardinalityType
<1>3. p * ItemsPerPage \in Nat /\ (p + 1) * ItemsPerPage \in Nat
  OBVIOUS
<1>4. m \in Nat /\ 1 <= m /\ m = p * ItemsPerPage + 1 /\ n \in Nat /\ n <= Len(s)
  BY <1>1, <1>2, <1>3
<1>5. T!PageOf(ids, p) = SubSeq(s, m, n)
  BY CardinalityIs DEF T!PageOf
<1> HIDE DEF s, m, n, Rank
<1>6. SubSeq(s, m, n) \in Seq(ids) /\ DOMAIN SubSeq(s, m, n) = 1 .. Len(SubSeq(s, m, n))
  BY <1>1, <1>4
<1>7. \A i \in 1 .. Len(SubSeq(s, m, n)) : i + m - 1 \in 1 .. Len(s) /\ SubSeq(s, m, n)[i] = s[i + m - 1]
  BY <1>1, <1>4
<1>8. \A i \in DOMAIN SubSeq(s, m, n) : Rank(SubSeq(s, m, n)[i]) = p * ItemsPerPage + i - 1
  <2> TAKE i \in DOMAIN SubSeq(s, m, n)
  <2>1. i \in Int /\ i + m - 1 = p * ItemsPerPage + i /\ i + m - 1 \in 1 .. Len(s)
    BY <1>3, <1>4, <1>6, <1>7
  <2>2. Rank(SubSeq(s, m, n)[i]) = (i + m - 1) - 1
    BY <1>1, <1>6, <1>7
  <2> QED
    BY <2>1, <2>2, <1>3
<1> QED
  BY <1>5, <1>6, <1>8 DEF Rank

\* A page that is full is the one before the next.
LEMMA NextPageIs ==
    ASSUME NEW n \in Nat, NEW m \in Nat \ {0}, n % m = 0
    PROVE  T!CeilDiv(n, m) \in Nat /\ T!CeilDiv(n, m) * m = n
<1> DEFINE k == n \div m
<1>1. k \in Nat /\ n = (m * k) + (n % m)
  OBVIOUS
<1> HIDE DEF k
<1>2. n = m * k /\ (n + m) - 1 = m * k + (m - 1)
  BY <1>1
<1>3. (m * k + (m - 1)) \div m = k
  BY <1>1
<1>4. T!CeilDiv(n, m) = k
  BY <1>2, <1>3 DEF T!CeilDiv
<1> QED
  BY <1>1, <1>2, <1>4

\* A row object of the page.
RowObjects == [from : Nat, id : Nat]

\* The server's table.
RowsTyped ==
    /\ IsFiniteSet(DOMAIN rows) /\ DOMAIN rows \subseteq Nat
    /\ lastId \in Nat /\ \A i \in DOMAIN rows : i <= lastId
    /\ rows \in [DOMAIN rows -> [status : Nat]]

\* The arrays that are, or can become, the current one, and the row objects in them.
Reach == {current} \cup {q.array : q \in calls}
OnPage == UNION {T!ToSet(arrays[a]) : a \in Reach}

Confirmed(q) == q.done /\ q.ok
Managing == {q \in calls : q.kind \in T!Manages}
Fetching == {q \in calls : q.kind \in T!Fetches}

IsCall(q) ==
    /\ q = [n |-> q.n, kind |-> q.kind, arg |-> q.arg, row |-> q.row, array |-> q.array,
            done |-> q.done, ok |-> q.ok, data |-> q.data]
    /\ q.n \in 1 .. called /\ q.kind \in T!Fetches \cup T!Manages /\ q.arg \in Nat
    /\ q.array \in DOMAIN arrays /\ q.done \in BOOLEAN /\ q.ok \in BOOLEAN
    /\ q.data \in Seq([id : Nat, status : Nat])

PageTyped ==
    /\ arrays \in Seq(Seq(RowObjects)) /\ current \in DOMAIN arrays /\ called \in Nat
    /\ \A q \in calls : IsCall(q)
    /\ OnPage \subseteq DOMAIN shown
    /\ \A o \in DOMAIN shown : o.from \in 1 .. called /\ \A q \in Fetching : o.from # q.n

\* One list is fetched at a time, a whole one beside nothing else.
Alone ==
    /\ \A p, q \in Fetching : p = q
    /\ \A q \in calls : T!Replaces(q) => calls = {q}
    /\ \A p, q \in calls : p.n = q.n => p = q

\* A row has one object, whichever arrays it is in, unless it is known to have two.
OneObject == \A o, p \in OnPage : o.id = p.id => o = p \/ o.id \in twice

\* No row of the page is newer than the newest.
KnownIds ==
    /\ \A o \in OnPage : o.id <= lastId
    /\ \A i \in gone : i \in Nat /\ i <= lastId

\* What a request manages is in the array its answer is applied to.
ManagesHere ==
    \A q \in Managing :
        /\ q.row \in T!ToSet(arrays[q.array]) /\ q.row.id = q.arg
        /\ \A p \in Managing : p.arg = q.arg /\ p # q => q.arg \in unsure

\* An object shows what the row is, when no answer for it waits.
ShownTrue ==
    \A o \in OnPage :
        /\ o.id \in DOMAIN rows /\ o.id \notin unsure /\ o.id \notin twice
        /\ \A q \in Managing : Confirmed(q) => q.arg # o.id
        => shown[o] = rows[o.id].status

\* A waiting answer says what the row is.
ConfirmedTrue ==
    \A q \in Managing : Confirmed(q) =>
        /\ q.kind = "delete" => q.arg \notin DOMAIN rows
        /\ q.kind # "delete" /\ q.arg \in DOMAIN rows /\ q.arg \notin unsure => q.data[1].status = rows[q.arg].status

GoneHidden ==
    /\ \A i \in gone : i \notin DOMAIN rows
    /\ \A o \in OnPage : o.id \in gone => o \in deleted \/ o.id \in twice

\* What a waiting list has: rows the page has already, or rows as they are.
ListTrue ==
    \A q \in Fetching : Confirmed(q) =>
        /\ \A i, j \in DOMAIN q.data : q.data[i].id = q.data[j].id => i = j
        /\ \A i \in DOMAIN q.data :
               \/ ~T!Replaces(q) /\ q.data[i].id \in T!IdsOf(arrays[q.array])
               \/ q.data[i].id \in DOMAIN rows /\ q.data[i].status = rows[q.data[i].id].status

\* A further page is fetched for an array that has all rows of the page.
NextFits == \A q \in Fetching : ~T!Replaces(q) => OnPage \subseteq T!ToSet(arrays[q.array])

PageInv ==
    /\ PageTyped /\ Alone /\ OneObject /\ KnownIds /\ ManagesHere /\ ShownTrue /\ ConfirmedTrue
    /\ GoneHidden /\ ListTrue /\ NextFits

TableInv ==
    /\ RowsTyped
    /\ ~mounted => T!Absent
    /\ mounted /\ ~mixed => PageInv

\* It is what the property asks.
LEMMA TableInvImplies == TableInv => TableTellsTruth
<1> SUFFICES ASSUME TableInv, mounted, ~mixed, NEW o \in T!Visible, o.id \notin twice
             PROVE  /\ o.id \notin gone
                    /\ o.id \in DOMAIN rows /\ o.id \notin unsure /\ (\A q \in T!Kinds(T!Manages) : q.arg # o.id)
                         => shown[o] = rows[o.id].status
  BY DEF TableTellsTruth, T!TableTellsTruth
<1>1. o \in OnPage /\ o \notin deleted
  BY DEF T!Visible, OnPage, Reach
<1>2. GoneHidden /\ ShownTrue
  BY DEF TableInv, PageInv
<1> QED
  BY <1>1, <1>2 DEF GoneHidden, ShownTrue, Managing, T!Kinds

\* A new request has the array of the table.
LEMMA CallIs ==
    ASSUME NEW kind, NEW arg, NEW row, T!Send(kind, arg, row)
    PROVE  \E c : /\ calls' = calls \cup {c}
                  /\ c = [n |-> called + 1, kind |-> kind, arg |-> arg, row |-> row, array |-> current,
                          done |-> FALSE, ok |-> FALSE, data |-> << >>]
                  /\ called' = called + 1 /\ mounted
                  /\ UNCHANGED <<rows, lastId, arrays, current, deleted, shown, mounted, gone, twice>>
BY DEF T!Send, T!Call

\* Sending keeps the page, when what is sent fits it.
LEMMA SendKeeps ==
    ASSUME PageInv, NEW kind \in T!Fetches \cup T!Manages, NEW arg \in Nat, NEW row, T!Send(kind, arg, row),
           unsure \subseteq unsure',
           \A q \in calls : ~T!Replaces(q),
           kind \in T!Fetches => Fetching = {},
           kind = "search" \/ (kind = "load" /\ arg = 0) => calls = {},
           kind = "load" /\ arg # 0 => OnPage \subseteq T!ToSet(arrays[current]),
           kind \in T!Manages =>
               /\ row \in T!ToSet(arrays[current]) /\ row.id = arg
               /\ \A q \in Managing : q.arg = arg => arg \in unsure'
    PROVE  PageInv'
<1>1. PICK c : /\ calls' = calls \cup {c}
               /\ c = [n |-> called + 1, kind |-> kind, arg |-> arg, row |-> row, array |-> current,
                       done |-> FALSE, ok |-> FALSE, data |-> << >>]
               /\ called' = called + 1 /\ mounted
               /\ UNCHANGED <<rows, lastId, arrays, current, deleted, shown, mounted, gone, twice>>
  BY CallIs
<1>2. /\ c.n = called + 1 /\ c.kind = kind /\ c.arg = arg /\ c.row = row /\ c.array = current
      /\ c.done = FALSE /\ c.ok = FALSE /\ c.data = << >>
      /\ c = [n |-> c.n, kind |-> c.kind, arg |-> c.arg, row |-> c.row, array |-> c.array,
              done |-> c.done, ok |-> c.ok, data |-> c.data]
  BY <1>1
<1>3. UNCHANGED <<rows, lastId, arrays, current, deleted, shown, gone, twice>> /\ called' = called + 1 /\ calls' = calls \cup {c}
  BY <1>1
<1>4. Reach' = Reach
  BY <1>2, <1>3 DEF Reach
<1>5. OnPage' = OnPage
  BY <1>3, <1>4 DEF OnPage
<1>6. c.kind \in T!Fetches => Fetching' = Fetching \cup {c} /\ Managing' = Managing
  BY <1>3 DEF Fetching, Managing, T!Fetches, T!Manages
<1>7. c.kind \in T!Manages => Fetching' = Fetching /\ Managing' = Managing \cup {c}
  BY <1>3 DEF Fetching, Managing, T!Fetches, T!Manages
<1>8. ~Confirmed(c)
  BY <1>2 DEF Confirmed
<1>9. kind = "search" \/ (kind = "load" /\ arg = 0) <=> T!Replaces(c)
  BY <1>2 DEF T!Replaces
<1>10. \A q \in calls : q.n \in 1 .. called /\ IsCall(q) /\ called \in Nat
  BY DEF PageInv, PageTyped, IsCall
<1>11. PageTyped'
  <2>1. IsCall(c)'
    <3>1. c.data \in Seq([id : Nat, status : Nat]) /\ c.n \in 1 .. called' /\ c.array \in DOMAIN arrays'
      BY <1>2, <1>3 DEF PageInv, PageTyped
    <3> QED
      BY <3>1, <1>2 DEF IsCall
  <2>2. \A q \in calls : IsCall(q)'
    BY <1>3, <1>10 DEF IsCall
  <2>3. \A o \in DOMAIN shown : o.from \in 1 .. called' /\ (\A q \in Fetching : o.from # q.n) /\ o.from # c.n
    BY <1>2, <1>3 DEF PageInv, PageTyped
  <2> QED
    BY <2>1, <2>2, <2>3, <1>2, <1>3, <1>5, <1>6, <1>7 DEF PageInv, PageTyped
<1>12. Alone'
  <2>1. \A p, q \in Fetching' : p = q
    BY <1>2, <1>6, <1>7 DEF PageInv, Alone
  <2>2. \A q \in calls' : T!Replaces(q) => calls' = {q}
    BY <1>3, <1>9
  <2>3. \A p, q \in calls' : p.n = q.n => p = q
    BY <1>2, <1>3, <1>10 DEF PageInv, Alone
  <2> QED
    BY <2>1, <2>2, <2>3 DEF Alone, T!Replaces
<1>13. OneObject' /\ KnownIds'
  BY <1>3, <1>5 DEF PageInv, OneObject, KnownIds
<1>14. ManagesHere'
  BY <1>2, <1>3, <1>6, <1>7 DEF PageInv, ManagesHere
<1>15. ShownTrue' /\ ConfirmedTrue' /\ GoneHidden'
  BY <1>2, <1>3, <1>5, <1>6, <1>7, <1>8 DEF PageInv, ShownTrue, ConfirmedTrue, GoneHidden, Confirmed
<1>16. ListTrue'
  BY <1>2, <1>3, <1>6, <1>7, <1>8 DEF PageInv, ListTrue, Confirmed, T!Replaces, T!IdsOf
<1>17. NextFits'
  BY <1>2, <1>3, <1>5, <1>6, <1>7, <1>9 DEF PageInv, NextFits, T!Replaces, T!Fetches
<1> QED
  BY <1>11, <1>12, <1>13, <1>14, <1>15, <1>16, <1>17 DEF PageInv

\* loadChannels for a further page.
LEMMA LoadMoreKeeps == TablesAssumption /\ TableInv /\ T!LoadMore => TableInv'
<1> SUFFICES ASSUME TablesAssumption, TableInv, T!LoadMore
             PROVE  TableInv'
  OBVIOUS
<1> DEFINE n == Len(arrays[current])
<1> DEFINE p == T!CeilDiv(n, ItemsPerPage)
<1>1. /\ n > 0 /\ n % ItemsPerPage = 0 /\ T!Send("load", p, T!NoRow) /\ unsure' = unsure
      /\ ~mixed' => /\ ~mixed /\ T!Kinds(T!Fetches) = {}
                    /\ \A q \in calls : T!ToSet(arrays[q.array]) \subseteq T!ToSet(arrays[current])
  BY DEF T!LoadMore
<1>2. mounted /\ mounted' = mounted /\ rows' = rows /\ lastId' = lastId
  BY <1>1 DEF T!Send
<1>3. ASSUME ~mixed'
      PROVE  PageInv'
  <2>1. PageInv /\ ~mixed
    BY <1>1, <1>2, <1>3 DEF TableInv
  <2>2. n \in Nat /\ ItemsPerPage \in Nat \ {0} /\ arrays[current] \in Seq(RowObjects)
    BY <2>1 DEF PageInv, PageTyped, TablesAssumption
  <2>3. p \in Nat /\ n = p * ItemsPerPage
    BY <1>1, <2>2, NextPageIs
  <2> HIDE DEF p
  <2>4. p # 0
    BY <1>1, <2>2, <2>3
  <2>5. Fetching = {} /\ \A q \in calls : ~T!Replaces(q)
    BY <1>1, <1>3 DEF T!Kinds, Fetching, T!Replaces, T!Fetches
  <2>6. OnPage \subseteq T!ToSet(arrays[current])
    BY <1>1, <1>3 DEF OnPage, Reach
  <2>8. "load" \in T!Fetches \cup T!Manages /\ "load" \notin T!Manages
    BY DEF T!Fetches, T!Manages
  <2> QED
    BY <1>1, <2>1, <2>3, <2>4, <2>5, <2>6, <2>8, SendKeeps
<1> QED
  BY <1>2, <1>3 DEF TableInv, RowsTyped

\* searchChannels.
LEMMA SearchChannelsKeeps == TableInv /\ T!SearchChannels => TableInv'
<1> SUFFICES ASSUME TableInv, T!SearchChannels
             PROVE  TableInv'
  OBVIOUS
<1>1. PICK kind \in {"search", "load"} : T!Send(kind, 0, T!NoRow)
  BY DEF T!SearchChannels
<1>2. unsure' = unsure /\ (~mixed' => ~mixed /\ calls = {})
  BY DEF T!SearchChannels
<1>3. mounted /\ mounted' = mounted /\ rows' = rows /\ lastId' = lastId
  BY <1>1 DEF T!Send
<1>4. ASSUME ~mixed'
      PROVE  PageInv'
  <2>1. PageInv /\ calls = {}
    BY <1>2, <1>3, <1>4 DEF TableInv
  <2>2. kind \in T!Fetches \cup T!Manages /\ kind \notin T!Manages
    BY DEF T!Fetches, T!Manages
  <2>3. Fetching = {}
    BY <2>1 DEF Fetching
  <2> QED
    BY <1>1, <1>2, <2>1, <2>2, <2>3, SendKeeps
<1> QED
  BY <1>3, <1>4 DEF TableInv, RowsTyped

\* manageChannel of a row that is shown.
LEMMA ManageChannelKeeps ==
    ASSUME TableInv, NEW o \in T!Visible, NEW action \in T!Manages, T!ManageChannel(o, action)
    PROVE  TableInv'
<1>1. /\ T!Send(action, o.id, o) /\ (~mixed' => ~mixed /\ \A q \in calls : ~T!Replaces(q))
      /\ unsure' = unsure \cup {q.arg : q \in {p \in T!Kinds(T!Manages) : p.arg = o.id}}
  BY DEF T!ManageChannel
<1>2. mounted /\ mounted' = mounted /\ rows' = rows /\ lastId' = lastId
  BY <1>1 DEF T!Send
<1>3. ASSUME ~mixed'
      PROVE  PageInv'
  <2>1. PageInv
    BY <1>1, <1>2, <1>3 DEF TableInv
  <2>2. o \in T!ToSet(arrays[current])
    BY DEF T!Visible
  <2>3. o.id \in Nat
    <3>1. o \in RowObjects
      BY <2>1, <2>2, RowsOfArray DEF PageInv, PageTyped
    <3> QED
      BY <3>1 DEF RowObjects
  <2>4. action \notin T!Fetches /\ action \notin {"load", "search"}
    BY DEF T!Fetches, T!Manages
  <2>5. unsure \subseteq unsure' /\ \A q \in Managing : q.arg = o.id => o.id \in unsure'
    BY <1>1 DEF Managing, T!Kinds
  <2> QED
    BY <1>1, <1>3, <2>1, <2>2, <2>3, <2>4, <2>5, SendKeeps
<1> QED
  BY <1>2, <1>3 DEF TableInv, RowsTyped

\* An answer changes the request only.
LEMMA AnswerIs ==
    ASSUME PageTyped, NEW q \in calls, NEW ok \in BOOLEAN, NEW data \in Seq([id : Nat, status : Nat]),
           T!Answer(q, ok, data)
    PROVE  \E r : /\ calls' = (calls \ {q}) \cup {r}
                  /\ r = [n |-> q.n, kind |-> q.kind, arg |-> q.arg, row |-> q.row, array |-> q.array,
                          done |-> TRUE, ok |-> ok, data |-> data]
<1>1. q = [n |-> q.n, kind |-> q.kind, arg |-> q.arg, row |-> q.row, array |-> q.array,
           done |-> q.done, ok |-> q.ok, data |-> q.data]
  BY DEF PageTyped, IsCall
<1> DEFINE f == {"n", "kind", "arg", "row", "array", "done", "ok", "data"}
<1> DEFINE e == [q EXCEPT !.done = TRUE, !.ok = ok, !.data = data]
<1>2. q = [x \in f |-> q[x]]
  BY <1>1
<1>3. /\ DOMAIN e = f /\ e = [x \in DOMAIN e |-> e[x]]
      /\ e.n = q.n /\ e.kind = q.kind /\ e.arg = q.arg /\ e.row = q.row /\ e.array = q.array
      /\ e.done = TRUE /\ e.ok = ok /\ e.data = data
  BY <1>2
<1> HIDE DEF e
<1>4. e = [n |-> q.n, kind |-> q.kind, arg |-> q.arg, row |-> q.row, array |-> q.array,
           done |-> TRUE, ok |-> ok, data |-> data]
  BY <1>3
<1> QED
  BY <1>4 DEF e, T!Answer

\* It keeps the page as it is, when what it says is true.
LEMMA AnswerKeeps ==
    ASSUME PageInv, NEW q \in calls, ~q.done, NEW r,
           NEW ok \in BOOLEAN, NEW data \in Seq([id : Nat, status : Nat]),
           calls' = (calls \ {q}) \cup {r},
           r = [n |-> q.n, kind |-> q.kind, arg |-> q.arg, row |-> q.row, array |-> q.array,
                done |-> TRUE, ok |-> ok, data |-> data],
           UNCHANGED <<lastId, arrays, current, deleted, shown, called, gone, twice>>, unsure \subseteq unsure',
           GoneHidden', ShownTrue', ConfirmedTrue', ListTrue'
    PROVE  PageInv'
<1>1. /\ r.n = q.n /\ r.kind = q.kind /\ r.arg = q.arg /\ r.row = q.row /\ r.array = q.array
      /\ r.done = TRUE /\ r.ok = ok /\ r.data = data
      /\ r = [n |-> r.n, kind |-> r.kind, arg |-> r.arg, row |-> r.row, array |-> r.array,
              done |-> r.done, ok |-> r.ok, data |-> r.data]
  OBVIOUS
<1>2. Reach' = Reach
  BY <1>1 DEF Reach
<1>3. OnPage' = OnPage
  BY <1>2 DEF OnPage
<1>4. q \in Fetching => Fetching' = (Fetching \ {q}) \cup {r} /\ Managing' = Managing
  BY <1>1 DEF Fetching, Managing, T!Fetches, T!Manages
<1>5. q \in Managing => Managing' = (Managing \ {q}) \cup {r} /\ Fetching' = Fetching
  BY <1>1 DEF Fetching, Managing, T!Fetches, T!Manages
<1>6. q \in Fetching \/ q \in Managing
  BY DEF PageInv, PageTyped, IsCall, Fetching, Managing
<1>7. PageTyped'
  <2>1. IsCall(r)'
    BY <1>1 DEF PageInv, PageTyped, IsCall
  <2>2. \A p \in calls : IsCall(p)'
    BY DEF PageInv, PageTyped, IsCall
  <2>3. \A o \in DOMAIN shown : \A p \in Fetching' : o.from # p.n
    BY <1>1, <1>4, <1>5, <1>6 DEF PageInv, PageTyped
  <2> QED
    BY <2>1, <2>2, <2>3, <1>3 DEF PageInv, PageTyped
<1>8. Alone'
  <2>1. T!Replaces(r) <=> T!Replaces(q)
    BY <1>1 DEF T!Replaces
  <2>2. \A p \in calls : T!Replaces(p) => calls = {p}
    BY DEF PageInv, Alone
  <2>3. \A p \in calls' : T!Replaces(p) => calls' = {p}
    BY <2>1, <2>2
  <2>4. \A p, s \in Fetching' : p = s
    BY <1>4, <1>5, <1>6 DEF PageInv, Alone
  <2>5. \A p, s \in calls' : p.n = s.n => p = s
    <3>1. \A p, s \in calls : p.n = s.n => p = s
      BY DEF PageInv, Alone
    <3>2. \A p \in calls' : p = r \/ (p \in calls /\ p # q)
      OBVIOUS
    <3>3. r.n = q.n
      BY <1>1
    <3> SUFFICES ASSUME NEW p \in calls', NEW s \in calls', p.n = s.n
                 PROVE  p = s
      OBVIOUS
    <3>4. CASE p = r
      BY <3>1, <3>2, <3>3, <3>4
    <3>5. CASE s = r
      BY <3>1, <3>2, <3>3, <3>5
    <3>6. CASE p # r /\ s # r
      BY <3>1, <3>2, <3>6
    <3> QED
      BY <3>4, <3>5, <3>6
  <2> QED
    BY <2>3, <2>4, <2>5 DEF Alone, T!Replaces
<1>9. OneObject' /\ KnownIds'
  BY <1>3 DEF PageInv, OneObject, KnownIds
<1>10. ManagesHere'
  <2>1. \A p \in Managing' : (p \in Managing /\ p # q) \/ (p = r /\ q \in Managing)
    BY <1>4, <1>5, <1>6 DEF Fetching, Managing, T!Fetches, T!Manages
  <2>2. \A m \in Managing : /\ m.row \in T!ToSet(arrays[m.array]) /\ m.row.id = m.arg
                            /\ \A p \in Managing : p.arg = m.arg /\ p # m => m.arg \in unsure
    BY DEF PageInv, ManagesHere
  <2>3. r.arg = q.arg /\ r.row = q.row /\ r.array = q.array
    BY <1>1
  <2>4. \A m \in Managing' : /\ m.row \in T!ToSet(arrays[m.array]) /\ m.row.id = m.arg
                             /\ \A p \in Managing' : p.arg = m.arg /\ p # m => m.arg \in unsure'
    BY <2>1, <2>2, <2>3
  <2> QED
    BY <2>4 DEF ManagesHere
<1>11. NextFits'
  BY <1>1, <1>3, <1>4, <1>5, <1>6 DEF PageInv, NextFits, T!Replaces
<1> QED
  BY <1>7, <1>8, <1>9, <1>10, <1>11 DEF PageInv

\* A request that is refused, or finds its row gone.
LEMMA RefusedKeeps ==
    ASSUME TableInv, NEW q \in calls, ~q.done, T!Answer(q, FALSE, << >>),
           UNCHANGED <<rows, lastId, arrays, current, deleted, shown, called, mounted, gone, mixed, twice, unsure>>
    PROVE  TableInv'
<1>0. mounted
  BY DEF TableInv, T!Absent
<1>1. ASSUME ~mixed'
      PROVE  PageInv'
  <2>1. PageInv
    BY <1>0, <1>1 DEF TableInv
  <2>2. << >> \in Seq([id : Nat, status : Nat])
    OBVIOUS
  <2>3. PICK r : /\ calls' = (calls \ {q}) \cup {r}
                 /\ r = [n |-> q.n, kind |-> q.kind, arg |-> q.arg, row |-> q.row, array |-> q.array,
                         done |-> TRUE, ok |-> FALSE, data |-> << >>]
    BY <2>1, <2>2, AnswerIs DEF PageInv
  <2>4. ~Confirmed(r) /\ ~Confirmed(q) /\ r.array = q.array /\ r.kind = q.kind /\ r.arg = q.arg
    BY <2>3 DEF Confirmed
  <2>5. Reach' = Reach
    BY <2>3, <2>4 DEF Reach
  <2>6. OnPage' = OnPage
    BY <2>5 DEF OnPage
  <2>7. /\ \A p \in Managing' : Confirmed(p) => p \in Managing
        /\ \A p \in Managing : Confirmed(p) => p \in Managing'
        /\ \A p \in Fetching' : Confirmed(p) => p \in Fetching
    BY <2>3, <2>4 DEF Managing, Fetching
  <2>8. GoneHidden' /\ ShownTrue' /\ ConfirmedTrue'
    BY <2>1, <2>5, <2>6, <2>7 DEF PageInv, GoneHidden, ShownTrue, ConfirmedTrue, Confirmed
  <2>9. ListTrue'
    BY <2>1, <2>6, <2>7 DEF PageInv, ListTrue, Confirmed, T!Replaces, T!IdsOf
  <2> QED
    BY <2>1, <2>2, <2>3, <2>8, <2>9, AnswerKeeps
<1> QED
  BY <1>0, <1>1 DEF TableInv, RowsTyped

\* The data of a list: the rows as they are.
LEMMA RowsOfIs ==
    ASSUME RowsTyped, NEW ids \in Seq(DOMAIN rows)
    PROVE  /\ T!RowsOf(ids) \in Seq([id : Nat, status : Nat]) /\ Len(T!RowsOf(ids)) = Len(ids)
           /\ DOMAIN T!RowsOf(ids) = DOMAIN ids
           /\ \A i \in DOMAIN ids : /\ ids[i] \in DOMAIN rows
                                    /\ T!RowsOf(ids)[i].id = ids[i] /\ T!RowsOf(ids)[i].status = rows[ids[i]].status
<1>1. DOMAIN ids = 1 .. Len(ids) /\ Len(ids) \in Nat /\ \A i \in DOMAIN ids : ids[i] \in DOMAIN rows
  OBVIOUS
<1>2. \A x \in DOMAIN rows : x \in Nat /\ rows[x].status \in Nat
  BY DEF RowsTyped
<1>3. T!RowsOf(ids) = [i \in 1 .. Len(ids) |-> [id |-> ids[i], status |-> rows[ids[i]].status]]
  BY <1>1 DEF T!RowsOf
<1>4. \A i \in 1 .. Len(ids) : [id |-> ids[i], status |-> rows[ids[i]].status] \in [id : Nat, status : Nat]
  BY <1>1, <1>2
<1> QED
  BY <1>1, <1>3, <1>4

\* A list that is served keeps the page, when its rows are different ones.
LEMMA ListServed ==
    ASSUME TableInv, NEW q \in calls, ~q.done, q.kind \in T!Fetches, NEW ids \in Seq(DOMAIN rows),
           T!Answer(q, TRUE, T!RowsOf(ids)),
           \A i, j \in DOMAIN ids : ids[i] = ids[j] => i = j,
           UNCHANGED <<rows, lastId, arrays, current, deleted, shown, called, mounted, gone, mixed, twice, unsure>>
    PROVE  TableInv'
<1>0. mounted
  BY DEF TableInv, T!Absent
<1>1. ASSUME ~mixed'
      PROVE  PageInv'
  <2>1. PageInv /\ RowsTyped
    BY <1>0, <1>1 DEF TableInv
  <2> DEFINE data == T!RowsOf(ids)
  <2>2. /\ data \in Seq([id : Nat, status : Nat]) /\ Len(data) = Len(ids) /\ DOMAIN data = DOMAIN ids
        /\ \A i \in DOMAIN ids : ids[i] \in DOMAIN rows /\ data[i].id = ids[i] /\ data[i].status = rows[ids[i]].status
    BY <2>1, RowsOfIs
  <2> HIDE DEF data
  <2>3. PICK r : /\ calls' = (calls \ {q}) \cup {r}
                 /\ r = [n |-> q.n, kind |-> q.kind, arg |-> q.arg, row |-> q.row, array |-> q.array,
                         done |-> TRUE, ok |-> TRUE, data |-> data]
    BY <2>1, <2>2, AnswerIs DEF PageInv, data
  <2>4. r.array = q.array /\ r.kind = q.kind /\ r.arg = q.arg /\ r.data = data
    BY <2>3
  <2>5. Reach' = Reach
    BY <2>3, <2>4 DEF Reach
  <2>6. OnPage' = OnPage
    BY <2>5 DEF OnPage
  <2>7. Managing' = Managing /\ Fetching' = {r}
    <3>1. q \in Fetching /\ \A p \in Fetching : p = q
      BY <2>1 DEF PageInv, Alone, Fetching
    <3> QED
      BY <2>3, <2>4, <3>1 DEF Managing, Fetching, T!Fetches, T!Manages
  <2>8. GoneHidden' /\ ShownTrue' /\ ConfirmedTrue'
    BY <2>1, <2>5, <2>6, <2>7 DEF PageInv, GoneHidden, ShownTrue, ConfirmedTrue, Confirmed
  <2>9. \A i, j \in DOMAIN data : data[i].id = data[j].id => i = j
    BY <2>2
  <2>10. \A i \in DOMAIN data : data[i].id \in DOMAIN rows /\ data[i].status = rows[data[i].id].status
    BY <2>2
  <2>13. ListTrue'
    BY <2>4, <2>7, <2>9, <2>10 DEF ListTrue, T!Replaces
  <2> QED
    BY <2>1, <2>2, <2>3, <2>8, <2>13, AnswerKeeps
<1> QED
  BY <1>0, <1>1 DEF TableInv, RowsTyped

\* What a search finds: rows of the table, different ones, in any order.
LEMMA FoundAre ==
    ASSUME IsFiniteSet(DOMAIN rows), NEW ids \in T!SetToSeqs(DOMAIN rows \cap Matches)
    PROVE  ids \in Seq(DOMAIN rows) /\ \A i, j \in DOMAIN ids : ids[i] = ids[j] => i = j
<1> DEFINE found == DOMAIN rows \cap Matches
           n == Cardinality(found)
<1>1. n \in Nat
  BY FS_Subset, FS_CardinalityType
<1>2. T!Cardinality(found) = n
  BY CardinalityIs
<1>3. ids \in [1 .. n -> found] /\ \A i, j \in 1 .. n : i # j => ids[i] # ids[j]
  BY <1>2 DEF T!SetToSeqs
<1>4. found \subseteq DOMAIN rows
  OBVIOUS
<1> HIDE DEF found, n
<1>5. ids \in [1 .. n -> DOMAIN rows] /\ DOMAIN ids = 1 .. n
  BY <1>3, <1>4
<1>6. ids \in Seq(DOMAIN rows)
  BY <1>1, <1>5
<1> QED
  BY <1>3, <1>5, <1>6

\* The server's answer to a load or a search.
LEMMA ListsServed ==
    ASSUME TablesAssumption, TableInv, NEW q \in calls, ~q.done,
           \/ q.kind = "load" /\ T!Answer(q, TRUE, T!RowsOf(T!PageOf(DOMAIN rows, q.arg)))
           \/ q.kind = "search" /\ (\E found \in T!SetToSeqs(DOMAIN rows \cap Matches) : T!Answer(q, TRUE, T!RowsOf(found))),
           UNCHANGED <<rows, lastId, arrays, current, deleted, shown, called, mounted, gone, mixed, twice, unsure>>,
           PageInv
    PROVE  TableInv'
<1>1. IsFiniteSet(DOMAIN rows) /\ DOMAIN rows \in SUBSET Nat /\ ItemsPerPage \in Nat /\ q.arg \in Nat
  BY DEF TableInv, RowsTyped, TablesAssumption, PageInv, PageTyped, IsCall
<1>2. CASE q.kind = "load" /\ T!Answer(q, TRUE, T!RowsOf(T!PageOf(DOMAIN rows, q.arg)))
  <2> DEFINE ids == T!PageOf(DOMAIN rows, q.arg)
  <2> DEFINE Above(x) == Cardinality({y \in DOMAIN rows : y > x})
  <2>1. ids \in Seq(DOMAIN rows) /\ \A i \in DOMAIN ids : Above(ids[i]) = q.arg * ItemsPerPage + i - 1
    BY <1>1, PageOfIs
  <2> HIDE DEF ids, Above
  <2>2. \A i, j \in DOMAIN ids : ids[i] = ids[j] => i = j
    <3>1. DOMAIN ids \subseteq Int /\ q.arg * ItemsPerPage \in Int
      BY <1>1, <2>1
    <3> QED
      BY <2>1, <3>1
  <2>3. q.kind \in T!Fetches
    BY <1>2 DEF T!Fetches
  <2> QED
    BY <1>1, <1>2, <2>1, <2>2, <2>3, ListServed DEF ids
<1>3. CASE q.kind = "search" /\ \E found \in T!SetToSeqs(DOMAIN rows \cap Matches) : T!Answer(q, TRUE, T!RowsOf(found))
  <2>1. PICK ids \in T!SetToSeqs(DOMAIN rows \cap Matches) : T!Answer(q, TRUE, T!RowsOf(ids))
    BY <1>3
  <2>2. ids \in Seq(DOMAIN rows) /\ \A i, j \in DOMAIN ids : ids[i] = ids[j] => i = j
    BY <1>1, <2>1, FoundAre
  <2>3. q.kind \in T!Fetches
    BY <1>3 DEF T!Fetches
  <2> QED
    BY <1>1, <2>1, <2>2, <2>3, ListServed
<1> QED
  BY <1>2, <1>3

\* What a waiting list says of a row that is managed meanwhile, the page has already.
LEMMA ListBesideManage ==
    ASSUME PageInv, NEW q \in Managing, NEW f \in Fetching
    PROVE  ~T!Replaces(f) /\ q.arg \in T!IdsOf(arrays[f.array])
<1>1. q.row \in OnPage /\ q.row.id = q.arg
  BY DEF PageInv, ManagesHere, OnPage, Reach, Managing
<1>2. f # q
  BY DEF Fetching, Managing, T!Fetches, T!Manages
<1>3. ~T!Replaces(f)
  BY <1>2 DEF PageInv, Alone, Fetching, Managing
<1> QED
  BY <1>1, <1>3 DEF PageInv, NextFits, T!IdsOf

\* Deleting and switching change a row, which is what the answer says if it comes.
LEMMA RowChanged ==
    ASSUME TableInv, NEW q \in calls, ~q.done, q.kind \in T!Manages, q.arg \in DOMAIN rows,
           RowsTyped',
           \A x \in DOMAIN rows' : x # q.arg => x \in DOMAIN rows /\ rows'[x].status = rows[x].status,
           \A x \in DOMAIN rows : x # q.arg => x \in DOMAIN rows',
           DOMAIN rows' \subseteq DOMAIN rows,
           NEW ok \in BOOLEAN, NEW data \in Seq([id : Nat, status : Nat]), T!Answer(q, ok, data),
           q.kind = "delete" => q.arg \notin DOMAIN rows',
           ok /\ q.kind # "delete" => data[1].status = rows'[q.arg].status,
           ok \/ q.arg \in unsure', unsure \subseteq unsure',
           UNCHANGED <<lastId, arrays, current, deleted, shown, called, mounted, gone, mixed, twice>>
    PROVE  TableInv'
<1>0. mounted
  BY DEF TableInv, T!Absent
<1>1. ASSUME ~mixed'
      PROVE  PageInv'
  <2>1. PageInv /\ RowsTyped
    BY <1>0, <1>1 DEF TableInv
  <2>2. PICK r : /\ calls' = (calls \ {q}) \cup {r}
                 /\ r = [n |-> q.n, kind |-> q.kind, arg |-> q.arg, row |-> q.row, array |-> q.array,
                         done |-> TRUE, ok |-> ok, data |-> data]
    BY <2>1, AnswerIs DEF PageInv
  <2>3. r.array = q.array /\ r.kind = q.kind /\ r.arg = q.arg /\ r.data = data /\ (Confirmed(r) <=> ok)
    BY <2>2 DEF Confirmed
  <2>4. Reach' = Reach
    BY <2>2, <2>3 DEF Reach
  <2>5. OnPage' = OnPage
    BY <2>4 DEF OnPage
  <2>6. q \in Managing /\ Managing' = (Managing \ {q}) \cup {r} /\ Fetching' = Fetching /\ ~Confirmed(q)
    BY <2>2, <2>3 DEF Managing, Fetching, T!Fetches, T!Manages, Confirmed
  <2>7. GoneHidden'
    BY <2>1, <2>5 DEF PageInv, GoneHidden
  <2>8. ShownTrue'
    <3> SUFFICES ASSUME NEW o \in OnPage, o.id \in DOMAIN rows', o.id \notin unsure', o.id \notin twice,
                        \A p \in Managing' : Confirmed(p) => p.arg # o.id
                 PROVE  shown[o] = rows'[o.id].status
      BY <2>5 DEF ShownTrue, Confirmed
    <3>1. o.id # q.arg /\ rows'[o.id].status = rows[o.id].status /\ o.id \in DOMAIN rows
      BY <2>3, <2>6
    <3>2. \A p \in Managing : Confirmed(p) => p.arg # o.id
      BY <2>6
    <3> QED
      BY <2>1, <3>1, <3>2 DEF PageInv, ShownTrue
  <2>9. ConfirmedTrue'
    <3> SUFFICES ASSUME NEW p \in Managing', Confirmed(p)
                 PROVE  /\ p.kind = "delete" => p.arg \notin DOMAIN rows'
                        /\ p.kind # "delete" /\ p.arg \in DOMAIN rows' /\ p.arg \notin unsure'
                             => p.data[1].status = rows'[p.arg].status
      BY DEF ConfirmedTrue, Confirmed
    <3>1. CASE p = r
      BY <2>3, <3>1
    <3>2. CASE p \in Managing /\ p # q
      <4>1. /\ p.kind = "delete" => p.arg \notin DOMAIN rows
            /\ p.kind # "delete" /\ p.arg \in DOMAIN rows /\ p.arg \notin unsure => p.data[1].status = rows[p.arg].status
        BY <2>1, <3>2 DEF PageInv, ConfirmedTrue
      <4>2. p.arg = q.arg => p.arg \in unsure
        BY <2>1, <2>6, <3>2 DEF PageInv, ManagesHere
      <4> QED
        BY <4>1, <4>2
    <3> QED
      BY <2>6, <3>1, <3>2
  <2>11. ListTrue'
    <3> SUFFICES ASSUME NEW f \in Fetching, Confirmed(f)
                 PROVE  /\ \A i, j \in DOMAIN f.data : f.data[i].id = f.data[j].id => i = j
                        /\ \A i \in DOMAIN f.data :
                               \/ ~T!Replaces(f) /\ f.data[i].id \in T!IdsOf(arrays[f.array])
                               \/ f.data[i].id \in DOMAIN rows' /\ f.data[i].status = rows'[f.data[i].id].status
      BY <2>6 DEF ListTrue, Confirmed, T!Replaces, T!IdsOf
    <3>1. /\ \A i, j \in DOMAIN f.data : f.data[i].id = f.data[j].id => i = j
          /\ \A i \in DOMAIN f.data :
                 \/ ~T!Replaces(f) /\ f.data[i].id \in T!IdsOf(arrays[f.array])
                 \/ f.data[i].id \in DOMAIN rows /\ f.data[i].status = rows[f.data[i].id].status
      BY <2>1 DEF PageInv, ListTrue
    <3>2. ~T!Replaces(f) /\ q.arg \in T!IdsOf(arrays[f.array])
      BY <2>1, <2>6, ListBesideManage
    <3> QED
      BY <3>1, <3>2
  <2> QED
    BY <2>1, <2>2, <2>7, <2>8, <2>9, <2>11, AnswerKeeps
<1> QED
  BY <1>0, <1>1 DEF TableInv

\* What the server does to a row for a request.
LEMMA ChangeIs ==
    ASSUME RowsTyped, NEW q, T!Change(q), lastId' = lastId
    PROVE  /\ q.kind \in T!Manages /\ q.arg \in DOMAIN rows
           /\ RowsTyped' /\ DOMAIN rows' \subseteq DOMAIN rows
           /\ \A x \in DOMAIN rows' : x # q.arg => x \in DOMAIN rows /\ rows'[x].status = rows[x].status
           /\ \A x \in DOMAIN rows : x # q.arg => x \in DOMAIN rows'
           /\ q.kind = "delete" => q.arg \notin DOMAIN rows'
           /\ q.kind # "delete" => q.arg \in Nat /\ rows'[q.arg].status \in Nat
<1>1. /\ q.kind \in T!Manages /\ q.arg \in DOMAIN rows
      /\ q.kind = "delete" => rows' = T!Without(q.arg)
      /\ q.kind # "delete" => \E v \in Nat : rows' = [rows EXCEPT ![q.arg].status = v]
  <2>1. q.kind \in {"delete", "enable", "disable"} /\ q.arg \in DOMAIN rows
    BY DEF T!Change, T!Manages
  <2>2. CASE q.kind = "delete"
    BY <2>1, <2>2 DEF T!Change
  <2>3. CASE q.kind = "enable"
    BY <2>1, <2>3 DEF T!Change, T!Enabled
  <2>4. CASE q.kind = "disable"
    BY <2>1, <2>4 DEF T!Change, T!Disabled
  <2> QED
    BY <2>1, <2>2, <2>3, <2>4 DEF T!Manages
<1>2. CASE q.kind = "delete"
  <2>1. /\ DOMAIN rows' = DOMAIN rows \ {q.arg} /\ \A x \in DOMAIN rows' : rows'[x] = rows[x]
        /\ rows' \in [DOMAIN rows \ {q.arg} -> [status : Nat]]
    BY <1>1, <1>2 DEF T!Without, RowsTyped
  <2>2. IsFiniteSet(DOMAIN rows \ {q.arg})
    BY FS_Subset DEF RowsTyped
  <2>3. RowsTyped'
    BY <2>1, <2>2 DEF RowsTyped
  <2> QED
    BY <1>1, <1>2, <2>1, <2>3
<1>3. CASE q.kind # "delete"
  <2>1. PICK v \in Nat : rows' = [rows EXCEPT ![q.arg].status = v]
    BY <1>1, <1>3
  <2>2. /\ DOMAIN rows' = DOMAIN rows /\ rows' \in [DOMAIN rows -> [status : Nat]]
        /\ \A x \in DOMAIN rows : x # q.arg => rows'[x] = rows[x]
    BY <1>1, <2>1 DEF RowsTyped
  <2>3. RowsTyped' /\ rows'[q.arg].status \in Nat /\ q.arg \in Nat
    BY <1>1, <2>2 DEF RowsTyped
  <2> QED
    BY <1>1, <1>3, <2>2, <2>3
<1> QED
  BY <1>2, <1>3

\* The server does what it is asked.
LEMMA RequestServed ==
    ASSUME TablesAssumption, TableInv, NEW q \in calls, T!Serve(q)
    PROVE  TableInv'
<1>0. /\ ~q.done /\ mounted
      /\ UNCHANGED <<lastId, arrays, current, deleted, shown, called, mounted, gone, mixed, twice, unsure>>
  BY DEF T!Serve, TableInv, T!Absent
<1>1. RowsTyped
  BY DEF TableInv
<1>2. \/ q.kind = "load" /\ T!Answer(q, TRUE, T!RowsOf(T!PageOf(DOMAIN rows, q.arg))) /\ UNCHANGED rows
      \/ q.kind = "search" /\ (\E found \in T!SetToSeqs(DOMAIN rows \cap Matches) : T!Answer(q, TRUE, T!RowsOf(found))) /\ UNCHANGED rows
      \/ T!Answer(q, FALSE, << >>) /\ UNCHANGED rows
      \/ T!Change(q) /\ T!Answer(q, TRUE, T!Changed(q))
  BY DEF T!Serve
<1>3. CASE T!Answer(q, FALSE, << >>) /\ UNCHANGED rows
  BY <1>0, <1>3, RefusedKeeps
<1>4. CASE /\ UNCHANGED rows
           /\ \/ q.kind = "load" /\ T!Answer(q, TRUE, T!RowsOf(T!PageOf(DOMAIN rows, q.arg)))
              \/ q.kind = "search" /\ (\E found \in T!SetToSeqs(DOMAIN rows \cap Matches) : T!Answer(q, TRUE, T!RowsOf(found)))
  <2>1. CASE mixed
    BY <1>0, <1>1, <1>4, <2>1 DEF TableInv, RowsTyped
  <2>2. CASE ~mixed
    <3>1. PageInv
      BY <1>0, <2>2 DEF TableInv
    <3> QED
      BY <1>0, <1>4, <3>1, ListsServed
  <2> QED
    BY <2>1, <2>2
<1>5. CASE T!Change(q) /\ T!Answer(q, TRUE, T!Changed(q))
  <2>1. /\ q.kind \in T!Manages /\ q.arg \in DOMAIN rows
        /\ RowsTyped' /\ DOMAIN rows' \subseteq DOMAIN rows
        /\ \A x \in DOMAIN rows' : x # q.arg => x \in DOMAIN rows /\ rows'[x].status = rows[x].status
        /\ \A x \in DOMAIN rows : x # q.arg => x \in DOMAIN rows'
        /\ q.kind = "delete" => q.arg \notin DOMAIN rows'
        /\ q.kind # "delete" => q.arg \in Nat /\ rows'[q.arg].status \in Nat
    BY <1>0, <1>1, <1>5, ChangeIs
  <2> DEFINE data == T!Changed(q)
  <2>2. data \in Seq([id : Nat, status : Nat]) /\ (q.kind # "delete" => data[1].status = rows'[q.arg].status)
    <3>1. CASE q.kind = "delete"
      <4>1. data = << >>
        BY <3>1 DEF T!Changed
      <4> HIDE DEF data
      <4> QED
        BY <3>1, <4>1
    <3>2. CASE q.kind # "delete"
      <4>1. PICK w : w = rows'[q.arg].status
        OBVIOUS
      <4>2. data = <<[id |-> q.arg, status |-> w]>> /\ w \in Nat /\ q.arg \in Nat
        BY <2>1, <3>2, <4>1 DEF T!Changed
      <4> HIDE DEF data
      <4> QED
        BY <4>1, <4>2
    <3> QED
      BY <3>1, <3>2
  <2>3. T!Answer(q, TRUE, data)
    BY <1>5
  <2> HIDE DEF data
  <2> QED
    BY <1>0, <2>1, <2>2, <2>3, RowChanged
<1> QED
  BY <1>2, <1>3, <1>4, <1>5

\* The request is lost or refused.
LEMMA RequestRefused ==
    ASSUME TableInv, NEW q \in calls, T!Refuse(q)
    PROVE  TableInv'
BY RefusedKeeps DEF T!Refuse

\* The request is served and its answer lost.
LEMMA AnswerLost ==
    ASSUME TableInv, NEW q \in calls, T!Lose(q)
    PROVE  TableInv'
<1>1. /\ ~q.done /\ T!Change(q) /\ T!Answer(q, FALSE, << >>)
      /\ q.arg \in unsure' /\ unsure \subseteq unsure'
      /\ UNCHANGED <<lastId, arrays, current, deleted, shown, called, mounted, gone, mixed, twice>>
  BY DEF T!Lose
<1>2. /\ q.kind \in T!Manages /\ q.arg \in DOMAIN rows
      /\ RowsTyped' /\ DOMAIN rows' \subseteq DOMAIN rows
      /\ \A x \in DOMAIN rows' : x # q.arg => x \in DOMAIN rows /\ rows'[x].status = rows[x].status
      /\ \A x \in DOMAIN rows : x # q.arg => x \in DOMAIN rows'
      /\ q.kind = "delete" => q.arg \notin DOMAIN rows'
  BY <1>1, ChangeIs DEF TableInv
<1>3. << >> \in Seq([id : Nat, status : Nat])
  OBVIOUS
<1> QED
  BY <1>1, <1>2, <1>3, RowChanged

\* Another row is added on the server.
LEMMA AddRowKeeps == TableInv /\ T!AddRow => TableInv'
<1> SUFFICES ASSUME TableInv, T!AddRow
             PROVE  TableInv'
  OBVIOUS
<1>1. /\ lastId' = lastId + 1 /\ lastId \in Nat /\ lastId + 1 \notin DOMAIN rows
      /\ DOMAIN rows' = DOMAIN rows \cup {lastId + 1} /\ \A i \in DOMAIN rows : rows'[i] = rows[i]
      /\ rows' \in [DOMAIN rows \cup {lastId + 1} -> [status : Nat]]
      /\ UNCHANGED <<arrays, current, deleted, shown, calls, called, mounted, gone, mixed, twice, unsure>>
  <2>1. /\ lastId' = lastId + 1
        /\ rows' = [i \in DOMAIN rows \cup {lastId + 1} |-> IF i \in DOMAIN rows THEN rows[i] ELSE [status |-> 1]]
        /\ UNCHANGED <<arrays, current, deleted, shown, calls, called, mounted, gone, mixed, twice, unsure>>
    BY DEF T!AddRow, T!Enabled
  <2>2. /\ lastId \in Nat /\ \A i \in DOMAIN rows : i \in Nat /\ i <= lastId
        /\ rows \in [DOMAIN rows -> [status : Nat]]
    BY DEF TableInv, RowsTyped
  <2> QED
    BY <2>1, <2>2
<1>2. RowsTyped'
  <2>1. IsFiniteSet(DOMAIN rows \cup {lastId + 1})
    BY FS_AddElement DEF TableInv, RowsTyped
  <2>2. \A i \in DOMAIN rows : i \in Nat /\ i <= lastId
    BY DEF TableInv, RowsTyped
  <2>3. \A i \in DOMAIN rows' : i \in Nat /\ i <= lastId'
    BY <1>1, <2>2
  <2> QED
    BY <1>1, <2>1, <2>3 DEF RowsTyped
<1>3. ASSUME PageInv
      PROVE  PageInv'
  <2>1. Reach' = Reach /\ Managing' = Managing /\ Fetching' = Fetching /\ OnPage' = OnPage
    BY <1>1 DEF Reach, Managing, Fetching, OnPage
  <2>2. PageTyped' /\ Alone' /\ OneObject' /\ ManagesHere' /\ NextFits'
    BY <1>1, <1>3, <2>1 DEF PageInv, PageTyped, Alone, OneObject, ManagesHere, NextFits, IsCall, T!Replaces
  <2>3. \A o \in OnPage : o.id \in Nat /\ o.id <= lastId
    <3> SUFFICES ASSUME NEW o \in OnPage
                 PROVE  o.id \in Nat /\ o.id <= lastId
      OBVIOUS
    <3>1. PICK a \in Reach : o \in T!ToSet(arrays[a])
      BY DEF OnPage
    <3>2. arrays[a] \in Seq(RowObjects)
      BY <1>3, <3>1 DEF PageInv, PageTyped, Reach, IsCall
    <3>3. o \in RowObjects
      BY <3>1, <3>2, RowsOfArray
    <3> QED
      BY <1>3, <3>3 DEF RowObjects, PageInv, KnownIds
  <2>4. KnownIds'
    BY <1>1, <1>3, <2>1, <2>3 DEF PageInv, KnownIds
  <2>5. \A o \in OnPage : o.id # lastId + 1
    BY <1>1, <2>3
  <2>6. \A q \in Managing : q.arg # lastId + 1
    <3>1. \A q \in Managing : q.row \in OnPage /\ q.row.id = q.arg
      BY <1>3 DEF PageInv, ManagesHere, OnPage, Reach, Managing
    <3> QED
      BY <2>5, <3>1
  <2>7. ShownTrue' /\ ConfirmedTrue'
    BY <1>1, <1>3, <2>1, <2>5, <2>6 DEF PageInv, ShownTrue, ConfirmedTrue, Confirmed
  <2>8. GoneHidden'
    <3>1. \A i \in gone : i # lastId + 1
      BY <1>1, <1>3 DEF PageInv, KnownIds
    <3> QED
      BY <1>1, <1>3, <2>1, <3>1 DEF PageInv, GoneHidden
  <2>9. ListTrue'
    BY <1>1, <1>3, <2>1 DEF PageInv, ListTrue, Confirmed, T!Replaces, T!IdsOf
  <2> QED
    BY <2>2, <2>4, <2>7, <2>8, <2>9 DEF PageInv
<1> QED
  BY <1>1, <1>2, <1>3 DEF TableInv, T!Absent

\* When requests end, or the rows of an array of the page are shown in another
\* one, the page has no other rows than before.
LEMMA PageShrinks ==
    ASSUME PageTyped, calls' \subseteq calls,
           \A a \in DOMAIN arrays : a \in DOMAIN arrays' /\ arrays'[a] = arrays[a],
           NEW b \in Reach, T!ToSet(arrays'[current']) = T!ToSet(arrays[b])
    PROVE  OnPage' \subseteq OnPage
<1>1. \A q \in calls : arrays'[q.array] = arrays[q.array]
  BY DEF PageTyped, IsCall
<1>2. \A a \in Reach' : a = current' \/ \E q \in calls' : a = q.array
  BY DEF Reach
<1>3. \A a \in Reach' : \E c \in Reach : T!ToSet(arrays'[a]) = T!ToSet(arrays[c])
  BY <1>1, <1>2 DEF Reach
<1> QED
  BY <1>3 DEF OnPage

\* A step that ends requests, or shows the rows of an array of the page in another one.
LEMMA ShrinkKeeps ==
    ASSUME PageInv, calls' \subseteq calls, UNCHANGED <<rows, lastId, called, twice, unsure>>,
           arrays' \in Seq(Seq(RowObjects)), current' \in DOMAIN arrays',
           \A a \in DOMAIN arrays : a \in DOMAIN arrays' /\ arrays'[a] = arrays[a],
           NEW b \in Reach, T!ToSet(arrays'[current']) = T!ToSet(arrays[b]),
           DOMAIN shown' = DOMAIN shown, KnownIds', ShownTrue', GoneHidden'
    PROVE  PageInv'
<1>1. \A q \in calls : IsCall(q) /\ q.array \in DOMAIN arrays /\ arrays'[q.array] = arrays[q.array]
  BY DEF PageInv, PageTyped, IsCall
<1>4. OnPage' \subseteq OnPage
  BY PageShrinks DEF PageInv
<1>5. Managing' \subseteq Managing /\ Fetching' \subseteq Fetching
  BY DEF Managing, Fetching
<1>6. PageTyped'
  <2>1. \A q \in calls : IsCall(q)'
    BY <1>1 DEF IsCall
  <2> QED
    BY <1>4, <1>5, <2>1 DEF PageInv, PageTyped
<1>7. Alone'
  <2>1. \A q \in calls : T!Replaces(q) => calls = {q}
    BY DEF PageInv, Alone
  <2>2. \A q \in calls' : T!Replaces(q) => calls' = {q}
    BY <2>1
  <2> QED
    BY <1>5, <2>2 DEF PageInv, Alone, T!Replaces
<1>8. OneObject'
  BY <1>4 DEF PageInv, OneObject
<1>9. ManagesHere'
  BY <1>1, <1>5 DEF PageInv, ManagesHere, Managing
<1>10. ConfirmedTrue'
  BY <1>5 DEF PageInv, ConfirmedTrue, Confirmed
<1>12. ListTrue'
  BY <1>1, <1>5 DEF PageInv, ListTrue, Fetching, Confirmed, T!Replaces, T!IdsOf
<1>13. NextFits'
  BY <1>1, <1>4, <1>5 DEF PageInv, NextFits, Fetching, T!Replaces
<1> QED
  BY <1>6, <1>7, <1>8, <1>9, <1>10, <1>12, <1>13 DEF PageInv

\* An answer that is an error.
LEMMA FailedKeeps ==
    ASSUME TableInv, NEW q \in calls, T!Failed(q)
    PROVE  TableInv'
<1>0. mounted /\ mounted' = mounted /\ rows' = rows /\ lastId' = lastId /\ mixed' = mixed
  BY DEF TableInv, T!Absent, T!Failed
<1>1. ASSUME ~mixed'
      PROVE  PageInv'
  <2>1. PageInv
    BY <1>0, <1>1 DEF TableInv
  <2>2. /\ calls' = calls \ {q} /\ ~Confirmed(q)
        /\ UNCHANGED <<rows, lastId, arrays, current, deleted, shown, called, gone, twice, unsure>>
    BY DEF T!Failed, Confirmed
  <2>3. OnPage' \subseteq OnPage
    BY <2>2 DEF OnPage, Reach
  <2>4. \A p \in Managing : Confirmed(p) => p \in Managing'
    BY <2>2 DEF Managing
  <2>5. KnownIds' /\ ShownTrue' /\ GoneHidden'
    BY <2>1, <2>2, <2>3, <2>4 DEF PageInv, KnownIds, ShownTrue, GoneHidden, Confirmed
  <2>6. arrays \in Seq(Seq(RowObjects)) /\ current \in DOMAIN arrays /\ current \in Reach
    BY <2>1 DEF PageInv, PageTyped, Reach
  <2> QED
    BY <2>1, <2>2, <2>5, <2>6, ShrinkKeeps
<1> QED
  BY <1>0, <1>1 DEF TableInv, RowsTyped

\* Another array becomes the current one.
LEMMA ArrayAppended ==
    ASSUME PageTyped, NEW a \in Seq(RowObjects), arrays' = Append(arrays, a), current' = Len(arrays')
    PROVE  /\ arrays' \in Seq(Seq(RowObjects)) /\ current' \in DOMAIN arrays' /\ arrays'[current'] = a
           /\ \A c \in DOMAIN arrays : c \in DOMAIN arrays' /\ arrays'[c] = arrays[c]
<1>1. arrays \in Seq(Seq(RowObjects))
  BY DEF PageTyped
<1> QED
  BY <1>1

\* SortChannel
LEMMA SortChannelKeeps == TableInv /\ T!SortChannel => TableInv'
<1> SUFFICES ASSUME TableInv, T!SortChannel
             PROVE  TableInv'
  OBVIOUS
<1> DEFINE a == arrays[current]
<1> DEFINE s == T!SortedById(a)
<1>0. mounted /\ mounted' = mounted /\ rows' = rows /\ lastId' = lastId /\ mixed' = mixed
  BY DEF T!SortChannel
<1>1. /\ arrays' = Append(arrays, IF s[1].id = a[1].id THEN T!Reverse(s) ELSE s)
      /\ current' = Len(arrays')
      /\ UNCHANGED <<rows, lastId, deleted, shown, calls, called, gone, twice, unsure>>
  BY DEF T!SortChannel
<1>2. ASSUME ~mixed'
      PROVE  PageInv'
  <2>1. PageInv
    BY <1>0, <1>2 DEF TableInv
  <2>2. a \in Seq(RowObjects)
    BY <2>1 DEF PageInv, PageTyped
  <2>3. s \in Seq(RowObjects) /\ Len(s) = Len(a) /\ T!ToSet(s) = T!ToSet(a)
    BY <2>2, SortedIs DEF RowObjects
  <2> HIDE DEF s
  <2>4. T!Reverse(s) \in Seq(RowObjects) /\ Len(T!Reverse(s)) = Len(s) /\ T!ToSet(T!Reverse(s)) = T!ToSet(s)
    BY <2>3, ReversedIs
  <2>5. PICK r \in Seq(RowObjects) : arrays' = Append(arrays, r) /\ Len(r) = Len(a) /\ T!ToSet(r) = T!ToSet(a)
    BY <1>1, <2>3, <2>4
  <2>6. /\ arrays' \in Seq(Seq(RowObjects)) /\ current' \in DOMAIN arrays' /\ arrays'[current'] = r
        /\ \A c \in DOMAIN arrays : c \in DOMAIN arrays' /\ arrays'[c] = arrays[c]
    BY <1>1, <2>1, <2>5, ArrayAppended DEF PageInv
  <2>7. current \in Reach
    BY DEF Reach
  <2>8. OnPage' \subseteq OnPage
    BY <1>1, <2>1, <2>5, <2>6, <2>7, PageShrinks DEF PageInv
  <2>9. Managing' = Managing
    BY <1>1 DEF Managing
  <2>10. KnownIds' /\ ShownTrue' /\ GoneHidden'
    BY <1>1, <2>1, <2>8, <2>9 DEF PageInv, KnownIds, ShownTrue, GoneHidden, Confirmed
  <2> QED
    BY <1>1, <2>1, <2>5, <2>6, <2>7, <2>10, ShrinkKeeps
<1> QED
  BY <1>0, <1>2 DEF TableInv, RowsTyped

\* findIndex finds a row that the request manages.
LEMMA RealIdxIs ==
    ASSUME PageInv, NEW q \in Managing
    PROVE  arrays[q.array][T!RealIdx(q)] \in T!ToSet(arrays[q.array]) /\ arrays[q.array][T!RealIdx(q)].id = q.arg
<1> DEFINE a == arrays[q.array]
<1> DEFINE At == {i \in 1 .. Len(a) : a[i].id = q.arg}
<1>1. a \in Seq(RowObjects) /\ DOMAIN a = 1 .. Len(a) /\ q.array \in Reach
  BY DEF PageInv, PageTyped, IsCall, Managing, Reach
<1>2. q.row \in T!ToSet(a) /\ q.row.id = q.arg
  BY DEF PageInv, ManagesHere
<1>3. At # {} /\ At \subseteq Nat
  BY <1>1, <1>2, RowsOfArray
<1>4. PICK k \in At : \A j \in At : k <= j
  <2> HIDE DEF At
  <2> QED
    BY <1>3, LeastNatural
<1>5. k \in DOMAIN a /\ a[k].id = q.arg /\ \A j \in 1 .. (k - 1) : a[j].id # q.arg
  BY <1>1, <1>4
<1>6. T!RealIdx(q) \in DOMAIN a /\ a[T!RealIdx(q)].id = q.arg
  <2> DEFINE Found(i) == a[i].id = q.arg /\ \A j \in 1 .. (i - 1) : a[j].id # q.arg
  <2>1. T!RealIdx(q) = CHOOSE i \in DOMAIN a : Found(i)
    BY DEF T!RealIdx
  <2>2. \E i \in DOMAIN a : Found(i)
    BY <1>5
  <2> HIDE DEF Found
  <2>3. T!RealIdx(q) \in DOMAIN a /\ Found(T!RealIdx(q))
    BY <2>1, <2>2
  <2> QED
    BY <2>3 DEF Found
<1>7. a[T!RealIdx(q)] \in T!ToSet(a)
  BY <1>1, <1>6 DEF T!ToSet
<1> QED
  BY <1>6, <1>7

\* manageChannel, after its await.
LEMMA ManageAnsweredKeeps ==
    ASSUME TableInv, NEW q \in calls, T!ManageAnswered(q)
    PROVE  TableInv'
<1>0. mounted /\ mounted' = mounted /\ rows' = rows /\ lastId' = lastId /\ mixed' = mixed
  BY DEF TableInv, T!Absent, T!ManageAnswered
<1>1. ASSUME ~mixed'
      PROVE  PageInv'
  <2>1. PageInv
    BY <1>0, <1>1 DEF TableInv
  <2>2. /\ q \in Managing /\ Confirmed(q) /\ calls' = calls \ {q} /\ current' = Len(arrays')
        /\ gone' = (IF q.kind = "delete" THEN gone \cup {q.arg} ELSE gone)
        /\ UNCHANGED <<rows, lastId, called, twice, unsure>>
    BY DEF T!ManageAnswered, Managing, Confirmed
  <2>3. PICK m \in T!ToSet(arrays[q.array]) :
            /\ m.id = q.arg
            /\ arrays' = Append(arrays, arrays[q.array])
            /\ deleted' = (IF q.kind = "delete" THEN deleted \cup {m} ELSE deleted)
            /\ shown' = (IF q.kind = "delete" THEN shown ELSE [shown EXCEPT ![m] = q.data[1].status])
    <3> DEFINE m == IF tab = "users" THEN q.row ELSE arrays[q.array][T!RealIdx(q)]
    <3>1. m \in T!ToSet(arrays[q.array]) /\ m.id = q.arg
      BY <2>1, <2>2, RealIdxIs DEF PageInv, ManagesHere
    <3>2. /\ arrays' = Append(arrays, arrays[q.array])
          /\ deleted' = (IF q.kind = "delete" THEN deleted \cup {m} ELSE deleted)
          /\ shown' = (IF q.kind = "delete" THEN shown ELSE [shown EXCEPT ![m] = q.data[1].status])
      BY DEF T!ManageAnswered, T!Mark
    <3> QED
      BY <3>1, <3>2
  <2>5. q.array \in Reach /\ arrays[q.array] \in Seq(RowObjects)
    BY <2>1, <2>2 DEF PageInv, PageTyped, IsCall, Reach
  <2>6. /\ arrays' \in Seq(Seq(RowObjects)) /\ current' \in DOMAIN arrays' /\ arrays'[current'] = arrays[q.array]
        /\ \A c \in DOMAIN arrays : c \in DOMAIN arrays' /\ arrays'[c] = arrays[c]
    BY <2>1, <2>2, <2>3, <2>5, ArrayAppended DEF PageInv
  <2>7. OnPage' \subseteq OnPage
    BY <2>1, <2>2, <2>5, <2>6, PageShrinks DEF PageInv
  <2>8. Managing' = Managing \ {q}
    BY <2>2 DEF Managing
  <2>9. m \in OnPage
    BY <2>5 DEF OnPage
  <2>10. \A o \in OnPage : o.id = q.arg => o = m \/ o.id \in twice
    BY <2>1, <2>3, <2>9 DEF PageInv, OneObject
  <2>11. m \in DOMAIN shown
    BY <2>1, <2>9 DEF PageInv, PageTyped
  <2>12. /\ q.kind = "delete" => q.arg \notin DOMAIN rows
         /\ q.kind # "delete" /\ q.arg \in DOMAIN rows /\ q.arg \notin unsure => q.data[1].status = rows[q.arg].status
    BY <2>1, <2>2 DEF PageInv, ConfirmedTrue
  <2>13. GoneHidden'
    BY <2>1, <2>2, <2>3, <2>7, <2>10, <2>12 DEF PageInv, GoneHidden
  <2>14. ShownTrue'
    <3> SUFFICES ASSUME NEW o \in OnPage, o.id \in DOMAIN rows, o.id \notin unsure, o.id \notin twice,
                        \A p \in Managing \ {q} : Confirmed(p) => p.arg # o.id
                 PROVE  shown'[o] = rows[o.id].status
      BY <2>2, <2>7, <2>8 DEF ShownTrue, Confirmed
    <3>1. CASE o.id = q.arg
      <4>1. o = m /\ q.kind # "delete"
        BY <2>10, <2>12, <3>1
      <4> QED
        BY <2>3, <2>11, <2>12, <3>1, <4>1
    <3>2. CASE o.id # q.arg
      <4>1. shown[o] = rows[o.id].status
        BY <2>1, <3>2 DEF PageInv, ShownTrue
      <4>2. o \in DOMAIN shown /\ o # m
        BY <2>1, <2>3, <3>2 DEF PageInv, PageTyped
      <4> QED
        BY <2>3, <4>1, <4>2
    <3> QED
      BY <3>1, <3>2
  <2>15. DOMAIN shown' = DOMAIN shown
    BY <2>3
  <2>16. KnownIds'
    <3>1. q.arg \in Nat /\ q.arg <= lastId
      BY <2>1, <2>2, <2>3, <2>9 DEF PageInv, PageTyped, IsCall, KnownIds, Managing
    <3> QED
      BY <2>1, <2>2, <2>7, <3>1 DEF PageInv, KnownIds
  <2> QED
    BY <2>1, <2>2, <2>5, <2>6, <2>13, <2>14, <2>15, <2>16, ShrinkKeeps
<1> QED
  BY <1>0, <1>1 DEF TableInv, RowsTyped

\* Two sequences one after the other.
LEMMA JoinedIs ==
    ASSUME NEW S0, NEW s \in Seq(S0), NEW t \in Seq(S0)
    PROVE  /\ s \o t \in Seq(S0) /\ Len(s \o t) = Len(s) + Len(t) /\ Len(s) \in Nat /\ Len(t) \in Nat
           /\ T!ToSet(s \o t) = T!ToSet(s) \cup T!ToSet(t)
<1>1. s \o t \in Seq(S0) /\ Len(s \o t) = Len(s) + Len(t) /\ Len(s) \in Nat /\ Len(t) \in Nat
  OBVIOUS
<1>2. \A o : o \in T!ToSet(s \o t) <=> \E i \in 1 .. Len(s \o t) : (s \o t)[i] = o
  BY <1>1, RowsOfArray
<1>3. \A o : o \in T!ToSet(s) <=> \E i \in 1 .. Len(s) : s[i] = o
  BY RowsOfArray
<1>4. \A o : o \in T!ToSet(t) <=> \E i \in 1 .. Len(t) : t[i] = o
  BY RowsOfArray
<1>5. \A i \in 1 .. Len(s) : i \in 1 .. Len(s \o t) /\ (s \o t)[i] = s[i]
  BY <1>1
<1>6. \A i \in 1 .. Len(t) : i + Len(s) \in 1 .. Len(s \o t) /\ (s \o t)[i + Len(s)] = t[i]
  BY <1>1
<1>7. \A i \in 1 .. Len(s \o t) :
          \/ i \in 1 .. Len(s) /\ (s \o t)[i] = s[i]
          \/ i - Len(s) \in 1 .. Len(t) /\ (s \o t)[i] = t[i - Len(s)]
  BY <1>1
<1>8. \A o : o \in T!ToSet(s \o t) <=> o \in T!ToSet(s) \/ o \in T!ToSet(t)
  <2> TAKE o
  <2>1. o \in T!ToSet(s) => o \in T!ToSet(s \o t)
    BY <1>2, <1>3, <1>5
  <2>2. o \in T!ToSet(t) => o \in T!ToSet(s \o t)
    BY <1>2, <1>4, <1>6
  <2>3. o \in T!ToSet(s \o t) => o \in T!ToSet(s) \/ o \in T!ToSet(t)
    BY <1>2, <1>3, <1>4, <1>7
  <2> QED
    BY <2>1, <2>2, <2>3
<1> QED
  BY <1>1, <1>8

\* A sequence with another member in a place, and one given place by place.
LEMMA PutIs ==
    ASSUME NEW S0, NEW s \in Seq(S0), NEW k \in DOMAIN s, NEW v \in S0
    PROVE  /\ [s EXCEPT ![k] = v] \in Seq(S0) /\ DOMAIN [s EXCEPT ![k] = v] = DOMAIN s
           /\ [s EXCEPT ![k] = v][k] = v
           /\ \A i \in DOMAIN s : i # k => [s EXCEPT ![k] = v][i] = s[i]
OBVIOUS

\* A sequence is what it has in each place.
LEMMA GivenByPlace ==
    ASSUME NEW S0, NEW n \in Nat, NEW s, s = [i \in 1 .. n |-> s[i]], \A i \in 1 .. n : s[i] \in S0
    PROVE  s \in Seq(S0) /\ Len(s) = n /\ DOMAIN s = 1 .. n
OBVIOUS

\* What an answered list brings: new objects, with the rows' status.
LEMMA ObjectsAre ==
    ASSUME PageInv, NEW q \in Fetching, Confirmed(q), shown' = T!NewShown(q)
    PROVE  /\ T!Objects(q) \in Seq(RowObjects) /\ Len(T!Objects(q)) = Len(q.data)
           /\ \A o \in T!ToSet(T!Objects(q)) :
                  /\ o.from = q.n /\ o \in DOMAIN shown'
                  /\ \/ ~T!Replaces(q) /\ o.id \in T!IdsOf(arrays[q.array])
                     \/ o.id \in DOMAIN rows /\ shown'[o] = rows[o.id].status
           /\ \A o, p \in T!ToSet(T!Objects(q)) : o.id = p.id => o = p
           /\ \A o \in DOMAIN shown : o \in DOMAIN shown' /\ shown'[o] = shown[o]
           /\ DOMAIN shown' = DOMAIN shown \cup T!ToSet(T!Objects(q))
<1> DEFINE objects == T!Objects(q)
<1>1. /\ q.n \in Nat /\ q.kind \in T!Fetches /\ q.data \in Seq([id : Nat, status : Nat])
      /\ DOMAIN q.data = 1 .. Len(q.data) /\ Len(q.data) \in Nat
  <2>1. q \in calls /\ q.kind \in T!Fetches
    BY DEF Fetching
  <2> QED
    BY <2>1 DEF PageInv, PageTyped, IsCall
<1>2. objects = [i \in 1 .. Len(q.data) |-> [from |-> q.n, id |-> q.data[i].id]]
  BY <1>1 DEF T!Objects
<1>3. \A i \in DOMAIN q.data : q.data[i].id \in Nat
  <2> DEFINE Data == [id : Nat, status : Nat]
  <2>1. \A d \in Data : d.id \in Nat
    OBVIOUS
  <2>2. q.data \in Seq(Data)
    BY <1>1
  <2> HIDE DEF Data
  <2>3. \A i \in DOMAIN q.data : q.data[i] \in Data
    BY <2>2
  <2> QED
    BY <2>1, <2>3
<1>4. \A i \in 1 .. Len(q.data) : objects[i] = [from |-> q.n, id |-> q.data[i].id]
  BY <1>2
<1>5. objects \in Seq(RowObjects) /\ Len(objects) = Len(q.data) /\ DOMAIN objects = DOMAIN q.data
  <2>1. \A i \in 1 .. Len(q.data) : objects[i] \in RowObjects
    <3> TAKE i \in 1 .. Len(q.data)
    <3>1. q.data[i].id \in Nat
      BY <1>1, <1>3
    <3>2. [from |-> q.n, id |-> q.data[i].id] \in RowObjects
      BY <1>1, <3>1 DEF RowObjects
    <3>3. objects[i] = [from |-> q.n, id |-> q.data[i].id]
      BY <1>4
    <3> HIDE DEF objects
    <3> QED
      BY <3>2, <3>3
  <2>2. objects = [i \in 1 .. Len(q.data) |-> objects[i]]
    BY <1>2
  <2> HIDE DEF objects
  <2> QED
    BY <1>1, <2>1, <2>2, GivenByPlace
<1> HIDE DEF objects
<1>6. \A o \in T!ToSet(objects) : \E i \in DOMAIN q.data : o = [from |-> q.n, id |-> q.data[i].id]
  <2> TAKE o \in T!ToSet(objects)
  <2>1. PICK i \in 1 .. Len(objects) : objects[i] = o
    BY <1>5, RowsOfArray
  <2> QED
    BY <1>1, <1>4, <1>5, <2>1
<1>7. /\ \A i, j \in DOMAIN q.data : q.data[i].id = q.data[j].id => i = j
      /\ \A i \in DOMAIN q.data :
             \/ ~T!Replaces(q) /\ q.data[i].id \in T!IdsOf(arrays[q.array])
             \/ q.data[i].id \in DOMAIN rows /\ q.data[i].status = rows[q.data[i].id].status
  BY DEF PageInv, ListTrue
<1>8. \A o, p \in T!ToSet(objects) : o.id = p.id => o = p
  BY <1>6
<1>9. /\ DOMAIN shown' = DOMAIN shown \cup T!ToSet(objects)
      /\ \A o \in DOMAIN shown : shown'[o] = shown[o]
      /\ \A o \in T!ToSet(objects) : o \notin DOMAIN shown =>
             shown'[o] = q.data[CHOOSE i \in DOMAIN q.data : q.data[i].id = o.id].status
  BY DEF T!NewShown, objects
<1>10. ASSUME NEW o \in T!ToSet(objects)
       PROVE  /\ o.from = q.n /\ o \in DOMAIN shown'
              /\ \/ ~T!Replaces(q) /\ o.id \in T!IdsOf(arrays[q.array])
                 \/ o.id \in DOMAIN rows /\ shown'[o] = rows[o.id].status
  <2>1. PICK i \in DOMAIN q.data : o = [from |-> q.n, id |-> q.data[i].id]
    BY <1>6
  <2>2. o.from = q.n  /\ o.id = q.data[i].id
    BY <2>1
  <2>3. o \notin DOMAIN shown
    BY <2>2 DEF PageInv, PageTyped
  <2>4. (CHOOSE j \in DOMAIN q.data : q.data[j].id = o.id) = i
    BY <1>7, <2>2
  <2>5. shown'[o] = q.data[i].status
    BY <1>9, <2>3, <2>4
  <2> QED
    BY <1>7, <1>9, <2>2, <2>5
<1> QED
  BY <1>5, <1>8, <1>9, <1>10 DEF objects

\* loadChannels and searchChannels, after their await.
LEMMA ListAnsweredKeeps ==
    ASSUME TablesAssumption, TableInv, NEW q \in calls, T!ListAnswered(q)
    PROVE  TableInv'
<1>0. mounted /\ mounted' = mounted /\ rows' = rows /\ lastId' = lastId /\ mixed' = mixed
  BY DEF TableInv, T!Absent, T!ListAnswered
<1>1. ASSUME ~mixed'
      PROVE  PageInv'
  <2> DEFINE new == T!Objects(q)
  <2>1. PageInv
    BY <1>0, <1>1 DEF TableInv
  <2>2. /\ q \in Fetching /\ Confirmed(q) /\ calls' = calls \ {q} /\ shown' = T!NewShown(q)
        /\ UNCHANGED <<rows, lastId, deleted, called, gone>>
    BY DEF T!ListAnswered, Fetching, Confirmed
  <2>3. /\ new \in Seq(RowObjects) /\ Len(new) = Len(q.data)
        /\ \A o \in T!ToSet(new) :
                  /\ o.from = q.n /\ o \in DOMAIN shown'
                  /\ \/ ~T!Replaces(q) /\ o.id \in T!IdsOf(arrays[q.array])
                     \/ o.id \in DOMAIN rows /\ shown'[o] = rows[o.id].status
        /\ \A o, p \in T!ToSet(new) : o.id = p.id => o = p
        /\ \A o \in DOMAIN shown : o \in DOMAIN shown' /\ shown'[o] = shown[o]
        /\ DOMAIN shown' = DOMAIN shown \cup T!ToSet(new)
    BY <2>1, <2>2, ObjectsAre
  <2>4. \/ T!Replaces(q) /\ arrays' = Append(arrays, new) /\ current' = Len(arrays')
        \/ ~T!Replaces(q) /\ arrays' = [arrays EXCEPT ![q.array] = arrays[q.array] \o new] /\ current' = q.array
    BY DEF T!ListAnswered
  <2>t. /\ T!Replaces(q) => twice' = {} /\ unsure' = {}
        /\ ~T!Replaces(q) => unsure' = unsure /\ twice' = twice \cup (T!IdsOf(new) \cap T!IdsOf(arrays[q.array]))
    BY DEF T!ListAnswered
  <2> HIDE DEF new
  <2>5. Fetching' = {} /\ Managing' = Managing
    <3>1. q \notin Managing
      BY <2>2 DEF Managing, Fetching, T!Fetches, T!Manages
    <3> QED
      BY <2>1, <2>2, <3>1 DEF PageInv, Alone, Fetching, Managing
  <2>6. \A p \in calls' : p \in calls /\ IsCall(p) /\ p.array \in DOMAIN arrays
    BY <2>1, <2>2 DEF PageInv, PageTyped, IsCall
  <2>7. /\ arrays' \in Seq(Seq(RowObjects)) /\ current' \in DOMAIN arrays' /\ DOMAIN arrays \subseteq DOMAIN arrays'
        /\ OnPage' \subseteq OnPage \cup T!ToSet(new)
        /\ \A a \in DOMAIN arrays : T!ToSet(arrays[a]) \subseteq T!ToSet(arrays'[a])
        /\ T!Replaces(q) => calls' = {} /\ OnPage' \subseteq T!ToSet(new)
    <3>1. CASE T!Replaces(q)
      <4>1. /\ arrays' \in Seq(Seq(RowObjects)) /\ current' \in DOMAIN arrays' /\ arrays'[current'] = new
            /\ \A a \in DOMAIN arrays : a \in DOMAIN arrays' /\ arrays'[a] = arrays[a]
        BY <2>1, <2>3, <2>4, <3>1, ArrayAppended DEF PageInv
      <4>2. calls' = {}
        BY <2>1, <2>2, <3>1 DEF PageInv, Alone
      <4>3. Reach' = {current'}
        BY <4>2 DEF Reach
      <4>4. OnPage' = T!ToSet(new)
        BY <4>1, <4>3 DEF OnPage
      <4> QED
        BY <3>1, <4>1, <4>2, <4>4
    <3>2. CASE ~T!Replaces(q)
      <4> DEFINE old == arrays[q.array]
      <4>1. arrays \in Seq(Seq(RowObjects)) /\ q.array \in DOMAIN arrays /\ old \in Seq(RowObjects)
        BY <2>1 DEF PageInv, PageTyped, IsCall
      <4> HIDE DEF old
      <4>2. /\ arrays' \in Seq(Seq(RowObjects)) /\ DOMAIN arrays' = DOMAIN arrays /\ arrays'[q.array] = old \o new
            /\ \A a \in DOMAIN arrays : a # q.array => arrays'[a] = arrays[a]
        <5>1. old \o new \in Seq(RowObjects)
          BY <2>3, <4>1, JoinedIs
        <5>2. arrays' = [arrays EXCEPT ![q.array] = old \o new]
          BY <2>4, <3>2 DEF old
        <5> QED
          BY <4>1, <5>1, <5>2, PutIs
      <4>3. /\ T!ToSet(old \o new) = T!ToSet(old) \cup T!ToSet(new)
            /\ Len(old \o new) = Len(old) + Len(new) /\ Len(old) \in Nat /\ Len(new) \in Nat
        <5>1. old \in Seq(RowObjects) /\ new \in Seq(RowObjects)
          BY <2>3, <4>1
        <5> QED
          BY <5>1, JoinedIs
      <4>4. current' = q.array /\ Reach' \subseteq Reach /\ q.array \in Reach
        BY <2>2, <2>4, <3>2 DEF Reach
      <4>5. Reach \subseteq DOMAIN arrays
        BY <2>1 DEF PageInv, PageTyped, IsCall, Reach
      <4>6. \A a \in Reach' : a \in Reach /\ T!ToSet(arrays'[a]) \subseteq T!ToSet(arrays[a]) \cup T!ToSet(new)
        BY <4>2, <4>3, <4>4, <4>5 DEF old
      <4>7. OnPage' \subseteq OnPage \cup T!ToSet(new)
        BY <4>6 DEF OnPage
      <4>9. \A a \in DOMAIN arrays : T!ToSet(arrays[a]) \subseteq T!ToSet(arrays'[a])
        BY <4>2, <4>3 DEF old
      <4> QED
        BY <3>2, <4>1, <4>2, <4>4, <4>7, <4>9
    <3> QED
      BY <3>1, <3>2
  <2>8. PageTyped'
    <3>1. \A p \in calls' : IsCall(p)'
      BY <2>2, <2>6, <2>7 DEF IsCall
    <3>2. OnPage' \subseteq DOMAIN shown'
      BY <2>1, <2>3, <2>7 DEF PageInv, PageTyped
    <3>3. q.n \in 1 .. called
      BY <2>1, <2>2 DEF PageInv, PageTyped, IsCall
    <3>4. \A o \in DOMAIN shown' : o.from \in 1 .. called
      BY <2>1, <2>3, <3>3 DEF PageInv, PageTyped
    <3> QED
      BY <2>1, <2>2, <2>5, <2>7, <3>1, <3>2, <3>4 DEF PageInv, PageTyped
  <2>9. Alone'
    <3>1. \A p \in calls' : ~T!Replaces(p)
      BY <2>5 DEF Fetching, T!Replaces, T!Fetches
    <3> QED
      BY <2>1, <2>2, <2>5, <3>1 DEF PageInv, Alone, T!Replaces
  <2>n. \A x \in T!ToSet(new) :
            \/ x.id \in twice'
            \/ x.id \in DOMAIN rows /\ shown'[x] = rows[x.id].status
    BY <2>3, <2>t DEF T!IdsOf
  <2>o. ~T!Replaces(q) => twice \subseteq twice' /\ unsure' = unsure
    BY <2>t
  <2>10. OneObject'
    <3> SUFFICES ASSUME NEW o \in OnPage', NEW p \in OnPage', o.id = p.id
                 PROVE  o = p \/ o.id \in twice'
      BY DEF OneObject
    <3>1. ~T!Replaces(q) => \A x \in T!ToSet(new) : \A y \in OnPage : y.id = x.id => x.id \in twice'
      <4>1. ~T!Replaces(q) => OnPage \subseteq T!ToSet(arrays[q.array])
        BY <2>1, <2>2 DEF PageInv, NextFits
      <4> QED
        BY <2>t, <4>1 DEF T!IdsOf
    <3>2. \A x, y \in OnPage : x.id = y.id => x = y \/ x.id \in twice
      BY <2>1 DEF PageInv, OneObject
    <3> QED
      BY <2>3, <2>7, <2>o, <3>1, <3>2
  <2>k. KnownIds'
    <3>1. \A i \in DOMAIN rows : i <= lastId
      BY DEF TableInv, RowsTyped
    <3>2. \A o \in OnPage : o.id <= lastId
      BY <2>1 DEF PageInv, KnownIds
    <3>3. \A x \in T!ToSet(new) : x.id <= lastId
      <4>1. \A i \in T!IdsOf(arrays[q.array]) : i <= lastId
        BY <2>2, <3>2 DEF T!IdsOf, OnPage, Reach
      <4> QED
        BY <2>3, <3>1, <4>1
    <3> QED
      BY <2>1, <2>2, <2>7, <3>2, <3>3 DEF PageInv, KnownIds
  <2>11. ManagesHere'
    <3>1. \A p \in Managing : p.array \in DOMAIN arrays
      BY <2>1 DEF PageInv, PageTyped, IsCall, Managing
    <3>2. \A p \in Managing : ~T!Replaces(q)
      BY <2>2, <2>5, <2>7 DEF Managing
    <3>3. \A p \in Managing : T!ToSet(arrays[p.array]) \subseteq T!ToSet(arrays'[p.array])
      BY <2>7, <3>1
    <3> QED
      BY <2>1, <2>5, <2>o, <3>2, <3>3 DEF PageInv, ManagesHere
  <2>12. ShownTrue'
    <3> SUFFICES ASSUME NEW o \in OnPage', o.id \in DOMAIN rows, o.id \notin unsure', o.id \notin twice',
                        \A p \in Managing : Confirmed(p) => p.arg # o.id
                 PROVE  shown'[o] = rows[o.id].status
      BY <2>2, <2>5 DEF ShownTrue, Confirmed
    <3>1. CASE o \in T!ToSet(new)
      BY <2>n, <3>1
    <3>2. CASE o \notin T!ToSet(new)
      <4>1. o \in OnPage /\ ~T!Replaces(q)
        BY <2>7, <3>2
      <4>2. o.id \notin unsure /\ o.id \notin twice
        BY <2>o, <4>1
      <4> QED
        BY <2>1, <2>3, <4>1, <4>2 DEF PageInv, PageTyped, ShownTrue
    <3> QED
      BY <3>1, <3>2
  <2>13. ConfirmedTrue'
    <3>1. \A p \in Managing : ~T!Replaces(q)
      BY <2>2, <2>5, <2>7 DEF Managing
    <3> QED
      BY <2>1, <2>2, <2>5, <2>o, <3>1 DEF PageInv, ConfirmedTrue, Confirmed
  <2>14. GoneHidden'
    <3> SUFFICES ASSUME NEW o \in OnPage', o.id \in gone
                 PROVE  o \in deleted \/ o.id \in twice'
      BY <2>1, <2>2 DEF PageInv, GoneHidden
    <3>1. o.id \notin DOMAIN rows
      BY <2>1 DEF PageInv, GoneHidden
    <3>2. CASE o \in T!ToSet(new)
      BY <2>n, <3>1, <3>2
    <3>3. CASE o \notin T!ToSet(new)
      BY <2>1, <2>7, <2>o, <3>3 DEF PageInv, GoneHidden
    <3> QED
      BY <3>2, <3>3
  <2>15. ListTrue' /\ NextFits'
    BY <2>5 DEF ListTrue, NextFits
  <2> QED
    BY <2>8, <2>9, <2>10, <2>k, <2>11, <2>12, <2>13, <2>14, <2>15 DEF PageInv
<1> QED
  BY <1>0, <1>1 DEF TableInv, RowsTyped

\* Coming.
LEMMA MountKeeps == TableInv /\ T!Mount => TableInv'
<1> SUFFICES ASSUME TableInv, T!Mount
             PROVE  TableInv'
  OBVIOUS
<1>1. T!Absent /\ RowsTyped
  BY DEF TableInv, T!Mount
<1>2. PICK c : /\ calls' = {c} /\ c = [n |-> 1, kind |-> "load", arg |-> 0, row |-> T!NoRow, array |-> 1,
                                      done |-> FALSE, ok |-> FALSE, data |-> << >>]
  <2>1. calls' = {[n |-> called + 1, kind |-> "load", arg |-> 0, row |-> T!NoRow, array |-> current,
                   done |-> FALSE, ok |-> FALSE, data |-> << >>]}
    BY DEF T!Mount, T!Call
  <2>2. called + 1 = 1 /\ current = 1
    BY <1>1 DEF T!Absent
  <2> QED
    BY <2>1, <2>2, Zenon
<1>3. /\ rows' = rows /\ lastId' = lastId /\ arrays' = << << >> >> /\ current' = 1 /\ shown' = << >> /\ gone' = {} /\ mounted' = TRUE
      /\ called' = 1
  BY <1>1 DEF T!Mount, T!Absent
<1>4. /\ c.n = 1 /\ c.kind = "load" /\ c.arg = 0 /\ c.array = 1 /\ c.done = FALSE /\ c.ok = FALSE /\ c.data = << >>
      /\ c = [n |-> c.n, kind |-> c.kind, arg |-> c.arg, row |-> c.row, array |-> c.array,
              done |-> c.done, ok |-> c.ok, data |-> c.data]
  BY <1>2
<1>5. arrays' \in Seq(Seq(RowObjects)) /\ DOMAIN arrays' = {1} /\ arrays'[1] = << >>
  BY <1>3
<1>6. Reach' = {1}
  BY <1>2, <1>3, <1>4 DEF Reach
<1>7. T!ToSet(arrays'[1]) = {}
  BY <1>5 DEF T!ToSet
<1>8. OnPage' = {}
  BY <1>6, <1>7 DEF OnPage
<1>9. Managing' = {} /\ Fetching' = {c} /\ T!Replaces(c) /\ ~Confirmed(c)
  BY <1>2, <1>4 DEF Managing, Fetching, T!Manages, T!Fetches, T!Replaces, Confirmed
<1>10. PageTyped'
  <2>1. IsCall(c)'
    <3>1. c.data \in Seq([id : Nat, status : Nat])
      BY <1>4
    <3> QED
      <4>1. c.kind \in T!Fetches \cup T!Manages /\ c.arg \in Nat /\ c.done \in BOOLEAN /\ c.ok \in BOOLEAN
        <5>1. c.kind \in T!Fetches \cup T!Manages /\ c.arg \in Nat
          BY <1>4 DEF T!Fetches
        <5>2. c.done \in BOOLEAN /\ c.ok \in BOOLEAN
          BY <1>4, Zenon
        <5> QED
          BY <5>1, <5>2
      <4>2. c.n \in 1 .. called' /\ c.array \in DOMAIN arrays'
        BY <1>3, <1>4, <1>5
      <4> QED
        BY <1>4, <3>1, <4>1, <4>2, Zenon DEF IsCall
  <2>2. DOMAIN shown' = {}
    BY <1>3
  <2> QED
    BY <1>2, <1>3, <1>5, <1>8, <2>1, <2>2 DEF PageTyped
<1>11. Alone'
  BY <1>2, <1>9 DEF Alone
<1>12. OneObject' /\ KnownIds' /\ ManagesHere' /\ ShownTrue' /\ ConfirmedTrue' /\ GoneHidden'
  BY <1>3, <1>8, <1>9 DEF OneObject, KnownIds, ManagesHere, ShownTrue, ConfirmedTrue, GoneHidden
<1>14. ListTrue' /\ NextFits'
  BY <1>9 DEF ListTrue, NextFits, Confirmed, T!Replaces
<1> QED
  BY <1>1, <1>3, <1>10, <1>11, <1>12, <1>14 DEF TableInv, RowsTyped, PageInv

\* And going.
LEMMA UnmountKeeps == TableInv /\ T!Unmount => TableInv'
BY DEF TableInv, RowsTyped, T!Unmount, T!Absent

\* The other pages of the console leave the table alone.
LEMMA TableUnchanged == TableInv /\ UNCHANGED tableVars => TableInv'
<1> SUFFICES ASSUME TableInv, UNCHANGED tableVars
             PROVE  TableInv'
  OBVIOUS
<1>1. UNCHANGED <<rows, lastId, arrays, current, deleted, shown, calls, called, mounted, gone, mixed, twice, unsure>>
  BY DEF tableVars
<1>2. Reach' = Reach /\ Managing' = Managing /\ Fetching' = Fetching
  BY <1>1 DEF Reach, Managing, Fetching
<1>3. OnPage' = OnPage
  BY <1>1, <1>2 DEF OnPage
<1>4. RowsTyped' /\ (~mounted' => T!Absent')
  BY <1>1 DEF TableInv, RowsTyped, T!Absent
<1>5. ASSUME PageInv PROVE PageInv'
  <2>1. PageTyped' /\ Alone' /\ OneObject' /\ KnownIds' /\ ManagesHere'
    BY <1>1, <1>2, <1>3, <1>5 DEF PageInv, PageTyped, Alone, OneObject, KnownIds, ManagesHere, IsCall, T!Replaces
  <2>2. ShownTrue' /\ ConfirmedTrue' /\ GoneHidden'
    BY <1>1, <1>2, <1>3, <1>5 DEF PageInv, ShownTrue, ConfirmedTrue, GoneHidden, Confirmed
  <2>3. ListTrue' /\ NextFits'
    BY <1>1, <1>2, <1>3, <1>5 DEF PageInv, ListTrue, NextFits, Confirmed, T!Replaces, T!IdsOf
  <2> QED
    BY <2>1, <2>2, <2>3 DEF PageInv
<1> QED
  BY <1>1, <1>4, <1>5 DEF TableInv

\* The table starts so.
LEMMA TableInit == TablesAssumption /\ Init => TableInv
BY DEF Init, TableInv, RowsTyped, TablesAssumption, T!Absent

\* Each step of the console keeps the table's invariant.
LEMMA TableNext == TablesAssumption /\ TableInv /\ [Next]_vars => TableInv'
<1> SUFFICES ASSUME TablesAssumption, TableInv, [Next]_vars
             PROVE  TableInv'
  OBVIOUS
<1>1. CASE UNCHANGED tableVars
  BY <1>1, TableUnchanged
<1>2. CASE T!Mount
  BY <1>2, MountKeeps
<1>3. CASE T!Unmount
  BY <1>3, UnmountKeeps
<1>4. CASE T!LoadMore
  BY <1>4, LoadMoreKeeps
<1>5. CASE T!SearchChannels
  BY <1>5, SearchChannelsKeeps
<1>6. CASE T!SortChannel
  BY <1>6, SortChannelKeeps
<1>7. CASE \E o \in T!Visible, action \in T!Manages : T!ManageChannel(o, action)
  BY <1>7, ManageChannelKeeps
<1>8. CASE \E q \in calls : T!Serve(q) \/ T!Refuse(q) \/ T!Lose(q) \/ T!Failed(q) \/ T!ListAnswered(q) \/ T!ManageAnswered(q)
  <2>1. PICK q \in calls : T!Serve(q) \/ T!Refuse(q) \/ T!Lose(q) \/ T!Failed(q) \/ T!ListAnswered(q) \/ T!ManageAnswered(q)
    BY <1>8
  <2> QED
    BY <2>1, RequestServed, RequestRefused, AnswerLost, FailedKeeps, ListAnsweredKeeps, ManageAnsweredKeeps
<1>9. CASE T!AddRow
  BY <1>9, AddRowKeeps
<1> QED
  BY <1>1, <1>2, <1>3, <1>4, <1>5, <1>6, <1>7, <1>8, <1>9 DEF Next, vars, T!Act

\* TableInv holds in every state.
LEMMA TableAlways == TablesAssumption => (Spec => []TableInv)
<1> SUFFICES ASSUME TablesAssumption
             PROVE  Spec => []TableInv
  OBVIOUS
<1>1. Init => TableInv
  BY TableInit
<1>2. TableInv /\ [Next]_vars => TableInv'
  BY TableNext
<1> QED
  BY <1>1, <1>2, PTL DEF Spec

\* A row whose deletion was confirmed stays hidden, and a row that nothing is
\* under way for shows the status it has, but for the very rows that the page
\* has twice or whose requests overlapped or were answered as failed, however
\* many deletions, switches, sorts and further pages overlap, whichever answers
\* are lost and whatever is added on the server (ChannelsTable.jsx,
\* WebhooksTable.jsx, UsersTable.jsx).
THEOREM TableAlwaysTellsTruth == TablesAssumption => (Spec => []TableTellsTruth)
<1> SUFFICES ASSUME TablesAssumption
             PROVE  Spec => []TableTellsTruth
  OBVIOUS
<1> QED
  BY TableAlways, TableInvImplies, PTL
=============================================================================
