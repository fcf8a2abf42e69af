---------------------------- MODULE PaperlessActions ---------------------------
(* connectors/paperless: documents, their taxonomy and consume tasks. *)
EXTENDS ActionRow

ListDocuments    == Read("document", {})
GetDocument      == Read("document", {"id"})
DownloadDocument == [Read("document", {"id", "out"}) EXCEPT !.saves = TRUE]
\* The service answers with a task; its work may still fail.
UploadDocument == [Create("document", {"file"}) EXCEPT !.async = TRUE,
    !.set = {"title", "created", "correspondent", "document_type", "archive_serial_number"}]
UpdateDocument == [Update("document", {"id"}) EXCEPT !.nonempty = TRUE,
    !.has = {"title", "correspondent", "document_type", "archive_serial_number",
             "created", "tags"}]
DeleteDocument == Delete("document", {"id"})
TaskStatus     == Read("document", {"task_id"})
Statistics     == Read("document", {})

TaxonomyList        == Read("tag", {})
CreateNamed(kind)   == [Create(kind, {"name"}) EXCEPT !.always = {"name"}]
CreateTag           == [CreateNamed("tag") EXCEPT !.set = {"color", "is_inbox_tag"}]
CreateCorrespondent == CreateNamed("correspondent")
CreateDocumentType  == CreateNamed("document_type")

Rows == {ListDocuments, GetDocument, DownloadDocument, UploadDocument, UpdateDocument,
         DeleteDocument, TaskStatus, Statistics,
         TaxonomyList, CreateTag, CreateCorrespondent, CreateDocumentType}
================================================================================
