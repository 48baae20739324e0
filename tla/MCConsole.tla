----------------------------- MODULE MCConsole -----------------------------
(***************************************************************************)
(* A small instance of Console for TLC.                                    *)
(***************************************************************************)
EXTENDS Console

MCRows == [i \in 1 .. 2 |-> [status |-> 1]]

\* What the forms have saved earlier.
Channel(type, app, account, url, other) ==
    [f \in F!Columns |->
        CASE f = "type" -> type [] f = "app_id" -> app [] f = "account_id" -> account
          [] f = "url" -> url [] f = "secret" -> "s" [] f = "other" -> other]

MCUsers == {[username |-> "n", password |-> "p", token |-> t, channel |-> ""] : t \in {"", "t", " "}}

MCItems ==
    [channel |-> {Channel("test", <<"">>, <<"a">>, "", "text"),
                  Channel("corp_app", <<"a", "b">>, <<"">>, "", ""),
                  Channel("one_bot", <<"">>, <<"">>, "u", ""),
                  Channel("group", <<"a", "b">>, <<"", "">>, "", "")},
     webhook |-> {[channel |-> c, rules |-> r, pre_script_enabled |-> FALSE, pre_script |-> ""] :
                     c \in {"", "a"}, r \in {"object", "json"}},
     message |-> {[description |-> "", content |-> "object", msg_type |-> m] : m \in {"", "interactive"}},
     user |-> MCUsers, own |-> MCUsers, push |-> MCUsers]

MCTypes == {"test", "corp_app", "bark", "one_bot", "telegram", "group", "custom"}
MCLists == {<<"">>, <<"a">>, <<"a", "b">>}

MCGroups == << <<"ServerAddress">>, <<"SMTPServer", "SMTPPort", "SMTPToken">>, <<"WeChatServerAddress">>, <<"Notice">> >>

MCOptions ==
    [k \in {"RegisterEnabled", "ServerAddress", "SMTPServer", "SMTPPort", "SMTPToken",
           "WeChatServerAddress", "Notice"} |->
        CASE k = "RegisterEnabled" -> "true" [] k = "SMTPToken" -> "t" [] OTHER -> ""]
=============================================================================
