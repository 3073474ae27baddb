-------------------------------- MODULE ApiClients --------------------------------
(***************************************************************************)
(* What the clients of the API keep, and what they ask of it: the token of *)
(* the worker's client for the job it executes (RunToken), what the job    *)
(* does at a vendor (Connectors), the files it uploads (Uploads), whether  *)
(* an action is allowed (PolicyEngine), how often they may ask (RateLimit),*)
(* the session that the web server keeps for a browser (BrowserSession)    *)
(* and the data that a page keeps in its cache (Dashboard).  They share    *)
(* nothing: a behaviour is about one of them, and Init chooses which.      *)
(***************************************************************************)
EXTENDS RunToken, Connectors, Uploads, PolicyEngine, RateLimit, BrowserSession,
        Dashboard

VARIABLE topic  \* what the behaviour is about

clientsVars == <<topic, vars, connectorVars, uploadsVars, engineVars, limitVars, browserVars,
                dashboardVars>>

Topics == {"token", "vendor", "uploads", "policy", "limit", "session", "dashboard"}

ClientsTypeOK ==
  /\ topic \in Topics
  /\ TypeOK /\ ConnectorTypeOK /\ UploadsTypeOK /\ EngineTypeOK /\ LimitTypeOK /\ BrowserTypeOK
  /\ DashboardTypeOK

ClientsInit ==
  /\ topic \in Topics
  /\ Init /\ ConnectorInit /\ UploadsInit /\ EngineInit /\ LimitInit /\ BrowserInit
  /\ DashboardInit
  /\ topic # "vendor" => job = [template |-> "renewal_check", connector |-> "sandbox"]
  /\ topic # "policy" => asked = AnyQuestion
  /\ topic # "limit" => limiter = "redis"
  /\ topic # "dashboard" => view = "agents"

ClientsNext ==
  /\ UNCHANGED topic
  /\ \/ /\ topic = "token" /\ Next
        /\ UNCHANGED <<connectorVars, uploadsVars, engineVars, limitVars, browserVars, dashboardVars>>
     \/ /\ topic = "vendor" /\ ConnectorNext
        /\ UNCHANGED <<vars, uploadsVars, engineVars, limitVars, browserVars, dashboardVars>>
     \/ /\ topic = "uploads" /\ UploadsNext
        /\ UNCHANGED <<vars, connectorVars, engineVars, limitVars, browserVars, dashboardVars>>
     \/ /\ topic = "policy" /\ EngineNext
        /\ UNCHANGED <<vars, connectorVars, uploadsVars, limitVars, browserVars, dashboardVars>>
     \/ /\ topic = "limit" /\ LimitNext
        /\ UNCHANGED <<vars, connectorVars, uploadsVars, engineVars, browserVars, dashboardVars>>
     \/ /\ topic = "session" /\ BrowserNext
        /\ UNCHANGED <<vars, connectorVars, uploadsVars, engineVars, limitVars, dashboardVars>>
     \/ /\ topic = "dashboard" /\ DashboardNext
        /\ UNCHANGED <<vars, connectorVars, uploadsVars, engineVars, limitVars, browserVars>>

ClientsSpec == ClientsInit /\ [][ClientsNext]_clientsVars
=============================================================================
