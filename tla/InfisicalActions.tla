---------------------------- MODULE InfisicalActions ---------------------------
(* connectors/infisical: secrets and folders, projects and environments,    *)
(* members and identities.                                                  *)
EXTENDS ActionRow

\* Where a secret or folder is; the credential may have defaults for it.
Scope     == {"project_id", "environment"}
Project   == {"project_id"}
Org       == {"org_id"}
InScope(a)   == [a EXCEPT !.scope = Scope]
InProject(a) == [a EXCEPT !.scope = Project]
InOrg(a)     == [a EXCEPT !.scope = Org]

ListEnvironments == InProject(Read("environment", {}))
ListFolders      == InScope(Read("folder", {}))
CreateFolder     == InScope(Create("folder", {"name"}))
DeleteFolder     == InScope(Delete("folder", {"name"}))

ListSecrets  == InScope(Read("secret", {}))
GetSecret    == InScope(Read("secret", {"name"}))
\* Shared unless the caller says that it is a personal one.
Typed(a) == [a EXCEPT !.always = @ \cup {"type"}, !.defaults = {"type"}]
CreateSecret == Typed([InScope(Create("secret", {"name"})) EXCEPT
    !.always = {"value"}, !.set = {"comment"}])
UpdateSecret == Typed([InScope(Update("secret", {"name"})) EXCEPT
    !.has = {"value", "comment"}, !.nonempty = TRUE])
DeleteSecret == Typed(InScope(Delete("secret", {"name"})))

ListProjects  == Read("project", {})
CreateProject == [Create("project", {"name"}) EXCEPT
    !.always = {"name", "create_default_envs", "type"},
    !.defaults = {"create_default_envs", "type"}, !.set = {"slug", "description"}]
GetProject    == InProject(Read("project", {}))
UpdateProject == [InProject(Update("project", {})) EXCEPT !.nonempty = TRUE,
    !.set = {"name", "slug", "description"},
    !.has = {"auto_capitalization", "delete_protection", "secret_sharing"}]
DeleteProject == Delete("project", {"project_id"})

CreateEnvironment == [InProject(Create("environment", {"name", "slug"})) EXCEPT
    !.always = {"name", "slug"}, !.has = {"position"}]
UpdateEnvironment == [InProject(Update("environment", {"environment_id"})) EXCEPT
    !.nonempty = TRUE, !.set = {"name", "slug"}, !.has = {"position"}]
DeleteEnvironment == Delete("environment", {"project_id", "environment_id"})

ListOrgMembers      == InOrg(Read("org_member", {}))
UpdateOrgMemberRole == [InOrg(Update("org_member", {"membership_id"})) EXCEPT
    !.nonempty = TRUE, !.set = {"role"}, !.has = {"is_active"}]
RemoveOrgMember     == Delete("org_member", {"org_id", "membership_id"})

ListProjectMembers == InProject(Read("member", {}))
AddProjectMember == [InProject(Create("member", {})) EXCEPT
    !.oneOf = {"emails", "usernames"}, !.always = {"roles"}, !.refills = {"roles"}]
UpdateProjectMemberRole == [InProject(Update("member", {"membership_id", "roles"})) EXCEPT
    !.always = {"roles"}]
RemoveProjectMember == [Delete("member", Project) EXCEPT !.oneOf = {"emails", "usernames"}]

ListProjectIdentities == InProject(Read("identity", {}))
AddProjectIdentity == [InProject(Create("identity", {"identity_id"})) EXCEPT
    !.always = {"roles"}, !.refills = {"roles"}]
RemoveProjectIdentity == Delete("identity", {"project_id", "identity_id"})

Rows == {ListEnvironments, ListFolders, CreateFolder, DeleteFolder,
         ListSecrets, GetSecret, CreateSecret, UpdateSecret, DeleteSecret,
         ListProjects, CreateProject, GetProject, UpdateProject, DeleteProject,
         CreateEnvironment, UpdateEnvironment, DeleteEnvironment,
         ListOrgMembers, UpdateOrgMemberRole, RemoveOrgMember,
         ListProjectMembers, AddProjectMember, UpdateProjectMemberRole,
         RemoveProjectMember, ListProjectIdentities, AddProjectIdentity,
         RemoveProjectIdentity}
================================================================================
