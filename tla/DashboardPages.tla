--------------------------- MODULE DashboardPages ---------------------------
(***************************************************************************)
(* What the pages of the dashboard ask the server for, under which key of  *)
(* the query cache they keep the answer, and which commands they give.     *)
(* How keys, answers and commands play together is in module QueryCache.   *)
(***************************************************************************)
EXTENDS DashboardApi, Sequences

(* A query: the name and the parameters that make up its key, and those    *)
(* that the answer depends on; what the component keeps of the answer in   *)
(* the global state, if anything.                                          *)
Read(name, by, call) == [name |-> name, by |-> by, call |-> call, keeps |-> "nothing"]

(* Layouts and sidebars: whatever comes, or only what has another uid.     *)
KeptInState(read, how) == [read EXCEPT !.keeps = how]

(* A command: what it does once its form is submitted, and the query that  *)
(* it asks for anew.                                                       *)
Command(name, query, steps) == [name |-> name, query |-> query, steps |-> steps]

(* Mutant: the dialog closes before the answer is there.                   *)
AwaitedLate == << "write", "refetch", "close", "await" >>

Awaited   == << "write", "refetch", "await", "close" >>
Unawaited == << "write", "refetch", "close" >>
Late      == << "write", "close", "refetch" >>
Forgotten == << "write", "close" >>
Keeping   == << "write", "keep" >>

View(reads, commands) == [reads |-> reads, commands |-> commands]

Display(reads) == View(reads, {})

-----------------------------------------------------------------------------
(* The hooks that pages share.                                             *)
UseFetchApiTokens     == Read("fetchOrgApiTokens", { "org", "query" }, ApiTokenApi.listApiTokens)
UseFetchBento         == Read("fetchBento", { "org", "repo", "version" }, BentoApi.fetchBento)
UseFetchBentoOptional == Read("fetchBentoOptional", { "org", "repo", "version" }, BentoApi.fetchBento)
UseFetchClusters      == Read("fetchOrgClusters", { "org", "query" }, ClusterApi.listClusters)
UseFetchCluster       == Read("fetchOrgCluster", { "cluster" }, ClusterApi.fetchCluster)
UseFetchCurrentUserApiToken == Read("fetchCurrentUserApiToken", {}, UserApi.fetchCurrentUserApiToken)

(* Mutant: the key leaves the cluster out.                                 *)
UseFetchDeploymentByName ==
  Read("fetchDeployment", { "org", "namespace", "name" }, DeploymentApi.fetchDeployment)

UseFetchDeployment ==
  Read("fetchDeployment", { "org", "cluster", "namespace", "name" }, DeploymentApi.fetchDeployment)
UseFetchDeploymentRevisions ==
  Read("fetchDeploymentRevisions", { "cluster", "namespace", "name", "query" },
       DeploymentRevisionApi.listDeploymentRevisions)
UseFetchInfo  == Read("fetchInfo", {}, {})
UseFetchModel == Read("fetchModel", { "org", "repo", "version" }, ModelApi.fetchModel)
UseFetchOrganizationMajorCluster ==
  Read("fetchOrganizationMajorCluster", {}, OrganizationApi.fetchOrganizationMajorCluster)
UseFetchOrganizationMembers ==
  Read("fetchOrgMembers", { "org" }, OrganizationMemberApi.listOrganizationMembers)
(* The key has the organization as an object, which is the same text for   *)
(* every one.                                                              *)
UseFetchOrganizationModelModules ==
  Read("fetchOrgModelModules", {}, OrganizationApi.listOrganizationModelModules)
UseFetchOrganizations == Read("fetchOrgs", { "query" }, OrganizationApi.listOrganizations)
UseFetchYataiComponents ==
  Read("fetchYataiComponents", { "org", "cluster" }, YataiComponentApi.listYataiComponents)
UseFetchOrganizationYataiComponents ==
  Read("fetchOrganizationYataiComponents", { "org" }, YataiComponentApi.listOrganizationYataiComponents)

-----------------------------------------------------------------------------
(* Lists with a table.                                                     *)
ApiTokenListCard ==
  View({ UseFetchApiTokens },
       { Command("createApiToken", "fetchOrgApiTokens", Awaited),
         Command("updateApiToken", "fetchOrgApiTokens", Awaited),
         Command("deleteApiToken", "fetchOrgApiTokens", Awaited) })

ClusterListCard ==
  View({ UseFetchClusters }, { Command("createCluster", "fetchOrgClusters", Awaited) })

OrganizationListCard ==
  View({ UseFetchOrganizations }, { Command("createOrganization", "fetchOrgs", Awaited) })

ClusterMemberListCard ==
  View({ Read("fetchClusterMembers", { "cluster" }, ClusterMemberApi.listClusterMembers) },
       { Command("createClusterMembers", "fetchClusterMembers", Awaited) })

(* The same two commands, with dialogs of their own, the second with the   *)
(* new user's password afterwards.                                         *)
OrganizationMemberListCard ==
  View({ UseFetchOrganizationMembers },
       { Command("createOrganizationMembers", "fetchOrgMembers", Awaited),
         Command("createUser", "fetchOrgMembers", Awaited) })

UserListCard ==
  Display({ Read("listUsers", { "query" }, UserApi.listUsers) })

DeploymentTerminalRecordList ==
  Display({ Read("fetchDeploymentTerminalRecords", { "cluster", "name", "query" },
                 DeploymentApi.listDeploymentTerminalRecords) })

(* Its dialog for another revision is never opened; to roll back is on a   *)
(* page of its own.                                                        *)
DeploymentRevisionListCard ==
  View({ UseFetchDeploymentRevisions },
       { Command("updateDeployment", "fetchDeploymentRevisions", Awaited) })

(* In a cluster or in the organization, which has the empty cluster.       *)
DeploymentListCard ==
  View({ Read("fetchClusterDeployments", { "org", "cluster", "query" },
              DeploymentApi.listClusterDeployments) },
       { Command("createDeployment", "fetchClusterDeployments", Awaited) })

BentoRepositoryDeployments ==
  Display({ Read("bentoRepositoryDeploymentsPage", { "repo", "query" },
                 BentoRepositoryApi.listBentoRepositoryDeployments) })

ModelRepositoryListCard ==
  Display({ Read("fetchModelRepositories", { "query" }, ModelRepositoryApi.listModelRepositories) })

ModelListCard ==
  Display({ Read("fetchModels", { "repo", "query" }, ModelApi.listModels) })

YataiComponents ==
  Display({ UseFetchYataiComponents })

-----------------------------------------------------------------------------
(* Lists of cards, with filters.                                           *)
BentoListCard ==
  Display({ UseFetchOrganizationMembers, Read("fetchBentos", { "repo", "query" }, BentoApi.listBentos) })

BentoFlatListCard ==
  Display({ UseFetchOrganizationMembers, Read("fetchAllBentos", { "org", "query" }, BentoApi.listAllBentos) })

ModelFlatListCard ==
  Display({ UseFetchOrganizationMembers, UseFetchOrganizationModelModules,
            Read("fetchAllModels", { "org", "query" }, ModelApi.listAllModels) })

BentoRepositoryListCard ==
  Display({ UseFetchOrganizationMembers,
            Read("fetchBentoRepositories", { "org", "query" }, BentoRepositoryApi.listBentoRepositories) })

EventListCard ==
  Display({ Read("listOrganizationEvents", { "query" }, OrganizationApi.listOrganizationEvents),
            Read("listOrganizationOperationNames", { "type" },
                 OrganizationApi.listOrganizationEventOperationNames) })

-----------------------------------------------------------------------------
(* Pages of one thing, with what they list of it.                          *)
ModelOverview ==
  View({ UseFetchModel,
         Read("modelBentos", { "repo", "version", "query" }, ModelApi.listModelBentos),
         Read("modelDeployments", { "repo", "version", "query" }, ModelApi.listModelDeployments) },
       { Command("updateModel", "fetchModel", Awaited) })

BentoOverview ==
  View({ UseFetchBento,
         Read("bentoModels", { "org", "repo", "version" }, BentoApi.listBentoModels),
         Read("bentoDeployments", { "org", "repo", "version", "query" }, BentoApi.listBentoDeployments) },
       { Command("updateBento", "fetchBento", Awaited) })

DeploymentOverview ==
  Display({ UseFetchYataiComponents })

(* Forms on pages of their own.                                            *)
DeploymentEdit ==
  View({ UseFetchDeployment }, { Command("updateDeployment", "fetchDeployment", Unawaited) })
RevisionRollback ==
  View({ UseFetchDeployment,
         Read("fetchDeploymentRevision", { "cluster", "namespace", "name", "uid" },
              DeploymentRevisionApi.fetchDeploymentRevision) },
       { Command("updateDeployment", "fetchDeployment", Unawaited) })
DeploymentRevisions == Display({ UseFetchDeploymentRevisions })

Home ==
  Display({ Read("news", {}, NewsApi.fetchNews),
               Read("recent_events", {}, InOrg({})), Read("recent_deployments", {}, InOrg({})) })

-----------------------------------------------------------------------------
(* Selectors ask as one types.                                             *)
ClusterSelector         == Display({ Read("listClusters", { "query" }, ClusterApi.listClusters) })
BentoRepositorySelector ==
  Display({ Read("listBentoRepositories", { "query" }, BentoRepositoryApi.listBentoRepositories) })
BentoSelector           == Display({ Read("listBento", { "org", "repo", "query" }, BentoApi.listBentos) })
ModelRepositorySelector ==
  Display({ Read("listModelRepositories", { "query" }, ModelRepositoryApi.listModelRepositories) })
UserSelector            == Display({ Read("listUsersOfSelector", { "query" }, UserApi.listUsers) })
(* It does not return what it has asked for.                               *)
ModelSelector           == Display({ Read("listModels", { "repo", "query" }, {}) })

(* Layouts and sidebars.                                                   *)
ClusterQuery         == Read("fetchCluster", { "cluster" }, ClusterApi.fetchCluster)
BentoRepositoryQuery == Read("fetchBentoRepository", { "repo" }, BentoRepositoryApi.fetchBentoRepository)

ClusterLayout == Display({ KeptInState(ClusterQuery, "another"), UseFetchOrganizationMembers, UseFetchInfo })
ClusterSidebar == Display({ KeptInState(ClusterQuery, "another") })
BentoRepositoryLayout ==
  Display({ KeptInState(BentoRepositoryQuery, "another"),
               Read("bentoRepositoryDeployments", { "repo" },
                    BentoRepositoryApi.listBentoRepositoryDeployments \ { "query" }) })
BentoRepositorySidebar == Display({ KeptInState(BentoRepositoryQuery, "another") })
ModelRepositorySidebar ==
  Display({ KeptInState(Read("fetchModelRepository", { "repo" }, ModelRepositoryApi.fetchModelRepository), "another") })
BentoLayout  == Display({ KeptInState(UseFetchBento, "any") })
ModelLayout  == Display({ KeptInState(UseFetchModel, "any") })
DeploymentSidebar == Display({ KeptInState(UseFetchDeployment, "another") })
OrganizationSidebar == Display({ UseFetchOrganizationYataiComponents })
BaseSidebar == Display({ Read("version", {}, VersionApi.fetchVersion) })

DeploymentLayout ==
  View({ KeptInState(UseFetchDeployment, "any"), UseFetchDeploymentRevisions, UseFetchOrganizationMembers },
       { Command("terminateDeployment", "fetchDeployment", Late),
         Command("deleteDeployment", "fetchDeployment", Forgotten) })

Header ==
  View({ Read("currentUser", {}, UserApi.fetchCurrentUser),
         Read("currentOrg", {}, OrganizationApi.fetchCurrentOrganization),
         UseFetchOrganizations, UseFetchInfo },
       { Command("createOrganization", "fetchOrgs", Awaited),
         Command("createCluster", "fetchOrgs", Forgotten),
         Command("changePassword", "currentUser", Forgotten) })

(* Forms that put the server's answer into the global state.               *)
ClusterSettings ==
  View({ KeptInState(ClusterQuery, "another") }, { Command("updateCluster", "fetchCluster", Keeping) })
OrganizationSettings ==
  View({ KeptInState(Read("currentOrg", {}, OrganizationApi.fetchCurrentOrganization), "another") },
       { Command("updateOrganization", "currentOrg", Keeping) })
BentoRepositoryOverview ==
  View({ KeptInState(BentoRepositoryQuery, "another") },
       { Command("updateBentoRepository", "fetchBentoRepository", Keeping) })

LokiLogQueries    == Display({ UseFetchOrganizationMajorCluster, UseFetchBentoOptional })
PodMonitorQueries == Display({ UseFetchOrganizationMajorCluster })

AllViews ==
  { ApiTokenListCard, ClusterListCard, OrganizationListCard, ClusterMemberListCard,
    OrganizationMemberListCard, UserListCard, DeploymentTerminalRecordList,
    DeploymentRevisionListCard, DeploymentListCard, BentoRepositoryDeployments,
    ModelRepositoryListCard, ModelListCard, YataiComponents, BentoListCard, BentoFlatListCard,
    ModelFlatListCard, BentoRepositoryListCard, EventListCard, ModelOverview, BentoOverview,
    DeploymentOverview, DeploymentEdit, RevisionRollback, DeploymentRevisions, Home,
    ClusterSelector, BentoRepositorySelector, BentoSelector, ModelRepositorySelector,
    UserSelector, ModelSelector, ClusterLayout, ClusterSidebar, BentoRepositoryLayout,
    BentoRepositorySidebar, ModelRepositorySidebar, BentoLayout, ModelLayout,
    DeploymentSidebar, OrganizationSidebar, BaseSidebar, DeploymentLayout, Header,
    ClusterSettings, OrganizationSettings, BentoRepositoryOverview,
    LokiLogQueries, PodMonitorQueries }
=============================================================================
