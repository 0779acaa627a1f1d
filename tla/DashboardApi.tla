---------------------------- MODULE DashboardApi ----------------------------
(***************************************************************************)
(* The services of the dashboard: for each function that asks the server   *)
(* for something, the parameters that the answer depends on.  "org" stands *)
(* for the header with the organization that the dashboard sends along,    *)
(* "query" for the page, the filters and the order of a list.              *)
(***************************************************************************)

(* The parameters of what belongs to an organization.                      *)
InOrg(parameters) == { "org" } \cup parameters

ApiTokenApi ==
  [listApiTokens |-> InOrg({ "query" }), fetchApiToken |-> InOrg({ "uid" }),
   createApiToken |-> InOrg({}), updateApiToken |-> InOrg({ "uid" }),
   deleteApiToken |-> InOrg({ "uid" })]

BentoApi ==
  LET bento == InOrg({ "repo", "version" })
  IN [listAllBentos |-> InOrg({ "query" }), listBentos |-> InOrg({ "repo", "query" }),
      fetchBento |-> bento, listBentoModels |-> bento,
      listBentoDeployments |-> bento \cup { "query" },
      createBento |-> InOrg({ "repo" }), updateBento |-> bento,
      startBentoUpload |-> bento, finishBentoUpload |-> bento,
      recreateBentoImageBuilderJob |-> bento, listBentoImageBuilderPods |-> bento]

BentoRepositoryApi ==
  [listBentoRepositories |-> InOrg({ "query" }), fetchBentoRepository |-> InOrg({ "repo" }),
   listBentoRepositoryDeployments |-> InOrg({ "repo", "query" }),
   createBentoRepository |-> InOrg({}), updateBentoRepository |-> InOrg({ "repo" })]

ClusterApi ==
  [listClusters |-> InOrg({ "query" }), fetchCluster |-> InOrg({ "cluster" }),
   createCluster |-> InOrg({}), updateCluster |-> InOrg({ "cluster" })]

ClusterMemberApi ==
  [listClusterMembers |-> InOrg({ "cluster" }), createClusterMembers |-> InOrg({ "cluster" }),
   deleteClusterMember |-> InOrg({ "cluster" })]

DeploymentApi ==
  LET deployment == InOrg({ "cluster", "namespace", "name" })
  IN [listClusterDeployments |-> InOrg({ "cluster", "query" }),
      listOrganizationDeployments |-> InOrg({ "query" }),
      listDeploymentTerminalRecords |-> deployment \cup { "query" },
      fetchDeployment |-> deployment, createDeployment |-> InOrg({ "cluster" }),
      updateDeployment |-> deployment, terminateDeployment |-> deployment,
      deleteDeployment |-> deployment]

DeploymentRevisionApi ==
  LET deployment == InOrg({ "cluster", "namespace", "name" })
  IN [listDeploymentRevisions |-> deployment \cup { "query" },
      fetchDeploymentRevision |-> deployment \cup { "uid" }]

ModelApi ==
  LET model == InOrg({ "repo", "version" })
  IN [listAllModels |-> InOrg({ "query" }), listModels |-> InOrg({ "repo", "query" }),
      fetchModel |-> model, listModelBentos |-> model \cup { "query" },
      listModelDeployments |-> model \cup { "query" },
      createModel |-> InOrg({ "repo" }), updateModel |-> model,
      startModelUpload |-> model, finishModelUpload |-> model,
      recreateModelImageBuilderJob |-> model, listModelImageBuilderPods |-> model]

ModelRepositoryApi ==
  [listModelRepositories |-> InOrg({ "query" }), fetchModelRepository |-> InOrg({ "repo" }),
   createModelRepository |-> InOrg({}), updateModelRepository |-> InOrg({ "repo" })]

(* The current organization is asked for without saying which.             *)
OrganizationApi ==
  [listOrganizations |-> { "query" }, fetchCurrentOrganization |-> {},
   listOrganizationModelModules |-> InOrg({}), fetchOrganizationMajorCluster |-> InOrg({}),
   listOrganizationEvents |-> InOrg({ "query" }),
   listOrganizationEventOperationNames |-> InOrg({ "type" }),
   createOrganization |-> {}, updateOrganization |-> InOrg({})]

OrganizationMemberApi ==
  [listOrganizationMembers |-> InOrg({}), createOrganizationMembers |-> InOrg({}),
   deleteOrganizationMember |-> InOrg({})]

UserApi ==
  [listUsers |-> { "query" }, fetchUser |-> { "name" }, fetchCurrentUser |-> {},
   registerUser |-> {}, loginUser |-> {}, fetchCurrentUserApiToken |-> {},
   createUser |-> InOrg({}), changePassword |-> {}]

YataiComponentApi ==
  [listYataiComponents |-> InOrg({ "cluster" }), listOrganizationYataiComponents |-> InOrg({})]

NewsApi    == [fetchNews |-> {}]
VersionApi == [fetchVersion |-> {}]
SetupApi   == [setupSelfHost |-> {}]
=============================================================================
