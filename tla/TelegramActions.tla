---------------------------- MODULE TelegramActions ----------------------------
(* connectors/telegram: messages and the bot's webhook (get-updates is part  *)
(* of TelegramTrigger).                                                      *)
EXTENDS ActionRow

\* To the chat passed, or to the credential's default.
ToChat(a) == [a EXCEPT !.scope = {"chat_id"}]

GetMe       == Read("bot", {})
SendMessage == [ToChat(Send("message", {"text"})) EXCEPT
    !.always = {"text", "disable_notification"}, !.defaults = {"disable_notification"},
    !.set = {"parse_mode", "reply_to_message_id"}]
SendMedia(media) == [ToChat(Send("message", {media})) EXCEPT
    !.always = {media}, !.set = {"caption", "parse_mode"}]
SendPhoto    == SendMedia("photo")
SendDocument == SendMedia("document")

\* Registering anew without a secret_token takes the old one away.
SetWebhook == [Replace("webhook", {"url"}) EXCEPT
    !.always = {"url", "drop_pending_updates"}, !.set = {"allowed_updates", "secret_token"},
    !.defaults = {"drop_pending_updates", "allowed_updates"}]
DeleteWebhook  == Delete("webhook", {})
GetWebhookInfo == Read("webhook", {})

Rows == {GetMe, SendMessage, SendPhoto, SendDocument, SetWebhook, DeleteWebhook,
         GetWebhookInfo}
================================================================================
