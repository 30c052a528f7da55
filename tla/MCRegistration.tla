--------------------------- MODULE MCRegistration ---------------------------
(***************************************************************************)
(* Two modules of one prefix, with a job each and a socket of the same     *)
(* path, three plugins and two services of one key.                        *)
(***************************************************************************)
EXTENDS Registration

LOCAL INSTANCE TLC
LOCAL INSTANCE ModuleBuilder

Job(name, services) == [name |-> name, services |-> services]

Users ==
  LET routes == AddRoute(AddRoute(Create("/users"), "GET", "/", None), "GET", "/open", "false")
      middle == UseMiddleware(routes, [onRequest |-> "trace", onResponse |-> None])
      served == Add(Add(Add(middle, "services", "mailer"), "services", "clock"), "wsRoutes", "/")
  IN Add(Add(served, "hooks", "users"), "crons", Job("digest", <<"mailer2">>))

Posts ==
  LET routes == AddRoute(Create("/users"), "GET", "/posts", "owner")
  IN Add(Add(Add(routes, "services", "mailer2"), "wsRoutes", "/"), "crons", Job("sweep", <<>>))

ModuleTable == ("users" :> Users) @@ ("posts" :> Posts)
PluginTable ==
  ("auth"  :> BuildPlugin("auth", <<>>, <<>>, <<>>, <<>>)) @@
  ("cms"   :> BuildPlugin("cms", <<"auth">>, <<"posts">>, <<>>, <<"editor">>)) @@
  ("admin" :> BuildPlugin("admin", <<"auth", "cms">>, <<"users", "posts">>, <<"admin">>, <<>>))
Keys == ("mailer" :> "mail") @@ ("mailer2" :> "mail") @@ ("clock" :> "time")

GlobalServices == {"mailer"}
GetPaths       == {<<"/users", "/">>}

=============================================================================
