--------------------------- MODULE ProviderAdapters ---------------------------
(***************************************************************************)
(* The seven adapters behind get_cloud_provider_client, as tables: which   *)
(* credentials each one needs, which failures of a call it tries again,    *)
(* which ones it turns into an application error (and, for regions, into   *)
(* which code), how it lists a category and what it needs to create one.   *)
(* A failure that is not caught escapes as the SDK's own exception.        *)
(***************************************************************************)
EXTENDS Naturals

\* What becomes of one call to a provider: an error response, or no response
\* at all (in which case the call may have had its effect).
Response == {"expired", "rejected", "denied", "throttled", "outage", "refused"}
Silence  == {"timeout", "unreachable"}
Fault    == Response \cup Silence

\* How a category is listed: whether every page is read, whether what is
\* returned is in the region asked for, whether the call is tried again, and
\* which failures become an application error.
Lists(paged, scoped, tried, caught) ==
  [paged |-> paged, scoped |-> scoped, tried |-> tried, caught |-> caught]

\* A region error with a code of its own for each failure, but for those given.
Codes(common, special) ==
  [f \in DOMAIN common \cup DOMAIN special |->
     IF f \in DOMAIN special THEN special[f] ELSE common[f]]
RegionCodes ==
  [expired |-> "CREDENTIALS_REJECTED", rejected |-> "CREDENTIALS_REJECTED",
   denied |-> "ACCESS_DENIED", throttled |-> "THROTTLED",
   outage |-> "PROVIDER_OUTAGE", refused |-> "DISCOVERY_FAILED"]

-----------------------------------------------------------------------------
(* AWS.  Everything it does not answer is a BotoCoreError: tried again, and *)
(* caught for regions and credentials only.                                 *)

AwsKeys == [always |-> {"access_key_id", "secret_access_key"}, storage |-> {}]
AwsRetried == {"throttled", "outage"} \cup Silence
AwsRegions ==
  Codes(RegionCodes, [expired |-> "CREDENTIALS_EXPIRED", timeout |-> "TIMEOUT",
                      unreachable |-> "NETWORK_UNREACHABLE"])
\* test_connection asks STS first; its own codes, and no call is tried again.
AwsTest ==
  [expired |-> "SESSION_TOKEN_EXPIRED", rejected |-> "INVALID_ACCESS_KEY",
   denied |-> "ACCESS_DENIED", throttled |-> "CREDENTIAL_TEST_FAILED",
   outage |-> "CREDENTIAL_TEST_FAILED", refused |-> "CREDENTIAL_TEST_FAILED",
   timeout |-> "NETWORK_ERROR", unreachable |-> "NETWORK_ERROR"]
\* The account's alias is asked for last, and may stay unknown.
AwsIdentity == Fault
AwsInstances == [compute |-> Lists(TRUE, TRUE, TRUE, Response)]
\* list_clusters and list_buckets read one page; buckets are the account's.
AwsInventory ==
  [clusters   |-> Lists(FALSE, TRUE, TRUE, Response),
   databases  |-> Lists(TRUE, TRUE, TRUE, Response),
   storage    |-> Lists(FALSE, FALSE, TRUE, Response),
   networking |-> Lists(TRUE, TRUE, TRUE, Response)]
\* The categories only discovery asks for, and no other provider has.
AwsWorkloads ==
  [ecs_clusters |-> Lists(FALSE, TRUE, TRUE, Response),
   serverless   |-> Lists(TRUE, TRUE, TRUE, Response),
   volumes      |-> Lists(TRUE, TRUE, TRUE, Response),
   balancers    |-> Lists(TRUE, TRUE, TRUE, Response)]
AwsNetwork ==
  [c \in {"scaling_groups", "subnets", "security_groups", "alarms"} |->
     Lists(TRUE, TRUE, TRUE, Response)]
AwsNeeds == [compute |-> {"image_id"}, storage |-> {"name"}, networking |-> {}]
AwsDeploys == [caught |-> Response, part |-> {}]

-----------------------------------------------------------------------------
(* Azure.  A request that cannot be sent is a ServiceRequestError, caught   *)
(* and tried again; a response that does not come is neither.               *)

AzureKeys ==
  [always |-> {"tenant_id", "client_id", "client_secret", "subscription_id"}, storage |-> {}]
AzureRetried == {"throttled", "outage", "unreachable"}
AzureCaught == Response \cup {"unreachable"}
AzureRegions == Codes(RegionCodes, [unreachable |-> "NETWORK_UNREACHABLE"])
AzureIdentity == AzureCaught
\* The lists are the subscription's, filtered by location.
AzureInventory ==
  [c \in {"compute", "clusters", "databases", "storage", "networking"} |->
     Lists(TRUE, TRUE, TRUE, AzureCaught)]
AzureNeeds ==
  [compute |-> {"resource_group", "subnet_id", "admin_username", "admin_password"},
   storage |-> {"resource_group", "name"}, networking |-> {"resource_group"}]
\* A machine gets a network interface first, and keeps it when it fails.
AzureDeploys == [caught |-> AzureCaught, part |-> {"compute"}]

-----------------------------------------------------------------------------
(* Google Cloud.                                                            *)

GcpKeys == [always |-> {"service_account_json", "project_id"}, storage |-> {}]
GcpRetried == {"throttled", "outage", "timeout"}
GcpCaught == Response \cup {"timeout"}
GcpRegions == Codes(RegionCodes, [timeout |-> "TIMEOUT"])
\* Networks are global; Cloud SQL reads one page and has its own errors.
GcpInventory ==
  [compute    |-> Lists(TRUE, TRUE, TRUE, GcpCaught),
   clusters   |-> Lists(TRUE, TRUE, TRUE, GcpCaught),
   databases  |-> Lists(FALSE, TRUE, TRUE, Response),
   storage    |-> Lists(TRUE, TRUE, TRUE, GcpCaught),
   networking |-> Lists(TRUE, FALSE, TRUE, GcpCaught)]
GcpNeeds == [compute |-> {"image"}, storage |-> {"name"}, networking |-> {}]
GcpDeploys == [caught |-> GcpCaught, part |-> {}]

-----------------------------------------------------------------------------
(* Oracle, Alibaba, IBM, DigitalOcean: one page of everything.              *)

OciKeys == [always |-> {"user", "tenancy", "fingerprint", "key_content"}, storage |-> {}]
OciRetried == {"throttled", "outage"}
OciRegions == RegionCodes
OciIdentity == Response
OciInventory ==
  [c \in {"compute", "clusters", "databases", "storage", "networking"} |->
     Lists(FALSE, TRUE, TRUE, Response)]
OciNeeds ==
  [compute |-> {"image_id", "availability_domain", "subnet_id"},
   storage |-> {"name"}, networking |-> {}]
OciDeploys == [caught |-> Response, part |-> {}]

AlibabaKeys == [always |-> {"access_key_id", "access_key_secret"}, storage |-> {}]
AlibabaRetried == {"throttled", "outage"}
AlibabaRegions ==
  Codes(RegionCodes, [expired |-> "CREDENTIALS_EXPIRED", timeout |-> "DISCOVERY_FAILED",
                      unreachable |-> "DISCOVERY_FAILED"])
AlibabaInventory ==
  [c \in {"compute", "clusters", "databases", "storage", "networking"} |->
     Lists(FALSE, c # "storage", TRUE, Fault)]
AlibabaNeeds ==
  [compute |-> {"image_id", "security_group_id"}, storage |-> {"name"}, networking |-> {}]
AlibabaDeploys == [caught |-> Fault, part |-> {}]

IbmKeys == [always |-> {"api_key"}, storage |-> {"cos_instance_crn"}]
IbmRetried == {"throttled", "outage"}
IbmRegions == RegionCodes
IbmIdentity == Response
IbmInventory ==
  [c \in {"compute", "clusters", "databases", "storage", "networking"} |->
     Lists(FALSE, c # "storage", c # "storage", Response)]
IbmNeeds ==
  [compute |-> {"image_id", "zone", "subnet_id", "vpc_id"},
   storage |-> {"name"}, networking |-> {}]
IbmDeploys == [caught |-> Response, part |-> {}]

DigitalOceanKeys ==
  [always |-> {"api_token"}, storage |-> {"spaces_access_key_id", "spaces_secret_access_key"}]
DigitalOceanRetried == {"throttled", "outage"}
DigitalOceanRegions == RegionCodes
DigitalOceanIdentity == Response
DigitalOceanInventory ==
  [c \in {"compute", "clusters", "databases", "storage", "networking"} |->
     Lists(FALSE, c # "storage", c # "storage", Response)]
DigitalOceanNeeds == [compute |-> {"image"}, storage |-> {"name"}, networking |-> {}]
DigitalOceanDeploys == [caught |-> Response, part |-> {}]

-----------------------------------------------------------------------------
(* The registry.                                                            *)

\* identity: the failures test_connection forgives once the regions are there;
\* none where it makes no further call.
Entry(keys, retried, regions, identity, lists, needs, deploys) ==
  [keys |-> keys, retried |-> retried, regions |-> regions, identity |-> identity,
   lists |-> lists, needs |-> needs, caught |-> deploys.caught, interface |-> deploys.part]

Registry ==
  [aws |-> Entry(AwsKeys, AwsRetried, AwsRegions, AwsIdentity,
                 Codes(Codes(AwsInstances, AwsInventory), Codes(AwsWorkloads, AwsNetwork)),
                 AwsNeeds, AwsDeploys),
   azure |-> Entry(AzureKeys, AzureRetried, AzureRegions, AzureIdentity, AzureInventory,
                   AzureNeeds, AzureDeploys),
   gcp |-> Entry(GcpKeys, GcpRetried, GcpRegions, {}, GcpInventory, GcpNeeds, GcpDeploys),
   oci |-> Entry(OciKeys, OciRetried, OciRegions, OciIdentity, OciInventory, OciNeeds, OciDeploys),
   alibaba |-> Entry(AlibabaKeys, AlibabaRetried, AlibabaRegions, {}, AlibabaInventory,
                     AlibabaNeeds, AlibabaDeploys),
   ibm |-> Entry(IbmKeys, IbmRetried, IbmRegions, IbmIdentity, IbmInventory, IbmNeeds, IbmDeploys),
   digitalocean |-> Entry(DigitalOceanKeys, DigitalOceanRetried, DigitalOceanRegions,
                          DigitalOceanIdentity, DigitalOceanInventory, DigitalOceanNeeds,
                          DigitalOceanDeploys)]
=============================================================================
