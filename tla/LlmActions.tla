------------------------------ MODULE LlmActions -------------------------------
(* connectors/llm and connectors/whisper: requests to a model, which keep   *)
(* nothing at the service but must not be paid for twice.                   *)
EXTENDS ActionRow

ListModels == Read("model", {})

\* messages wins over prompt and system.
Completion(needs) == [Send("completion", {"model"} \cup needs) EXCEPT
    !.always = {"model"} \cup needs, !.set = {"temperature"}]
Thinking(a)  == [a EXCEPT !.defaults = @ \cup {"enable_thinking"}, !.set = @ \cup {"enable_thinking"}]
ChatMessages == Thinking([Completion({"messages"}) EXCEPT !.set = @ \cup {"tools", "tool_choice"}])
ChatPrompt   == Thinking([Completion({"prompt"}) EXCEPT
    !.set = @ \cup {"system", "tools", "tool_choice"}])
ChatWithImage == [Completion({"prompt", "image"}) EXCEPT
    !.always = @ \cup {"detail"}, !.defaults = {"detail"}, !.set = @ \cup {"system"}]
\* The format is guessed from the name of the file.
ChatWithAudio == Thinking([Completion({"prompt", "audio"}) EXCEPT
    !.always = @ \cup {"format"}, !.refills = {"format"}, !.set = @ \cup {"system"}])
Embed == [Send("completion", {"model", "input"}) EXCEPT !.always = {"model", "input"}]

Speech(needs) == [Send("transcript", needs) EXCEPT
    !.always = {"model", "audio"}, !.set = {"prompt", "temperature"}]
LlmTranscribe == [Speech({"model", "audio"}) EXCEPT
    !.defaults = {"model"}, !.set = @ \cup {"language"}]
\* The model may come from the credential.
ResolveModel(a) == [a EXCEPT !.scope = {"model"}]
Transcribe == [ResolveModel(Speech({"audio"})) EXCEPT !.set = @ \cup {"language", "vad_filter"}]
Translate  == ResolveModel(Speech({"audio"}))

Rows == {ListModels, ChatMessages, ChatPrompt, ChatWithImage, ChatWithAudio, Embed,
         LlmTranscribe, Transcribe, Translate}
================================================================================
