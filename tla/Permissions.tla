---------------------------- MODULE Permissions ----------------------------
(***************************************************************************)
(* Role-based access control: the permission table of core/permissions.py  *)
(* and the test has_permission() that every handler runs through the       *)
(* RequirePermission dependency before its own code.                       *)
(***************************************************************************)

Roles == {"agent", "senior_agent", "team_lead", "supervisor", "qa_analyst", "admin"}

Resources == {"case", "call", "customer", "user", "sla",
              "escalation", "qa", "audit", "report", "approval"}

Actions == {"create", "read", "update", "delete", "escalate", "evaluate", "export"}

\* What every role with an entry in the table may do
CommonGrants ==
  {<<"case", "read">>, <<"case", "update">>, <<"call", "read">>,
   <<"customer", "read">>, <<"qa", "read">>}

\* What the four roles that handle cases add to it
HandlerGrants ==
  CommonGrants \cup {<<"case", "create">>, <<"escalation", "escalate">>, <<"approval", "read">>}

RolePermissions ==
  [role \in Roles |->
     CASE role = "agent" ->
            HandlerGrants \cup {<<"approval", "create">>}
       [] role = "senior_agent" ->
            HandlerGrants \cup {<<"approval", "create">>, <<"escalation", "read">>,
                                <<"sla", "read">>, <<"report", "read">>}
       [] role = "team_lead" ->
            HandlerGrants \cup {<<"approval", "create">>, <<"approval", "update">>,
                                <<"escalation", "read">>, <<"sla", "read">>,
                                <<"report", "read">>, <<"user", "read">>}
       [] role = "supervisor" ->
            HandlerGrants \cup {<<"approval", "update">>, <<"escalation", "read">>,
                                <<"sla", "read">>, <<"report", "read">>,
                                <<"report", "export">>, <<"user", "read">>}
       [] role = "qa_analyst" ->
            CommonGrants \cup {<<"escalation", "read">>, <<"sla", "read">>,
                               <<"qa", "evaluate">>, <<"report", "read">>}
       [] role = "admin" -> Resources \X Actions]

\* rbac_service.has_permission
HasPermission(role, resource, action) == <<resource, action>> \in RolePermissions[role]

=============================================================================
