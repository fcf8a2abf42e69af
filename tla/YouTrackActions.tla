---------------------------- MODULE YouTrackActions ----------------------------
(* connectors/youtrack: issues, articles, projects and users.  Readable keys *)
(* and logins are looked up before the request that needs the id.            *)
EXTENDS ActionRow

LookingUp(a) == [a EXCEPT !.lookup = TRUE]

Me         == Read("user", {})
ListUsers  == Read("user", {})
GetUser    == LookingUp(Read("user", {"user"}))
CreateUser == [Create("user", {"login", "email"}) EXCEPT
    !.always = {"login", "email", "force_change_password"},
    !.defaults = {"force_change_password"}, !.set = {"full_name", "password"}]
CreateToken == [LookingUp(Create("token", {"user"})) EXCEPT
    !.always = {"name"}, !.defaults = {"name"}]

ListProjects    == Read("project", {})
GetProject      == LookingUp(Read("project", {}))
ListProjectTeam == LookingUp(Read("project", {}))
\* Without a lead the bound user, who is looked up.
CreateProject == [LookingUp(Create("project", {"key", "name"})) EXCEPT
    !.always = {"key", "name", "lead"}, !.refills = {"lead"}, !.set = {"description"}]

ListIssues == Read("issue", {})
GetIssue   == Read("issue", {"id"})
CreateIssue == [LookingUp(Create("issue", {"project_key", "summary"})) EXCEPT
    !.always = {"summary"}, !.set = {"description", "assignee_login"},
    !.followUp = {"parent_issue"}]
\* uses_markdown goes with a description, with its default if it was left out.
UpdateIssue == [Update("issue", {"id"}) EXCEPT !.nonempty = TRUE,
    !.set = {"summary", "description"}, !.pairs = {<<"uses_markdown", "description">>},
    !.defaults = {"uses_markdown"}]
\* The command it sends sets what create-issue calls assignee_login.
SetAssignee  == [Update("issue", {"issue", "assignee_login"}) EXCEPT
    !.always = {"assignee_login"}]
ApplyCommand   == Send("issue", {"command", "issues"})
ListIssueLinks == Read("issue", {"issue"})
LinkIssues     == [Create("link", {"issue", "target", "link_type", "direction"}) EXCEPT
    !.always = {"link_type", "direction"}, !.defaults = {"link_type", "direction"}]
AddComment     == [Create("comment", {"issue", "text"}) EXCEPT
    !.always = {"text", "uses_markdown"}, !.defaults = {"uses_markdown"}]

ListAttachments    == Read("attachment", {"issue"})
AttachFile         == Create("attachment", {"issue", "file"})
DownloadAttachment == [LookingUp(Read("attachment", {"issue", "attachment_id", "out"}))
    EXCEPT !.saves = TRUE]

ListArticles   == Read("article", {})
GetArticle     == Read("article", {"id"})
GetArticleTree == LookingUp(Read("article", {"id"}))
ListChildArticles == Read("article", {"id"})
CreateArticle == [LookingUp(Create("article", {"project_key", "summary"})) EXCEPT
    !.always = {"summary"}, !.set = {"content", "parent_article"}]
UpdateArticle == [Update("article", {"id"}) EXCEPT !.nonempty = TRUE,
    !.set = {"summary", "content"}]
DeleteArticle == Delete("article", {"id"})

Rows == {Me, ListUsers, GetUser, CreateUser, CreateToken,
         ListProjects, GetProject, ListProjectTeam, CreateProject,
         ListIssues, GetIssue, CreateIssue, UpdateIssue, SetAssignee, ApplyCommand,
         ListIssueLinks, LinkIssues, AddComment,
         ListAttachments, AttachFile, DownloadAttachment,
         ListArticles, GetArticle, GetArticleTree, ListChildArticles,
         CreateArticle, UpdateArticle, DeleteArticle}
================================================================================
