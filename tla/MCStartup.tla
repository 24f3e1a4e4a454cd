------------------------------ MODULE MCStartup ------------------------------
EXTENDS Startup

\* The init functions that share state: the two that register the admin
\* users repository, the context-message service and the auth repository
\* that reads it, logs, and the admin service that starts the leadership
\* watcher.  The repositories of auth, adminUsers and logs all write the
\* PrefixService maps.
SharedInits == {"admin", "auth", "adminUsers", "ctx", "logs"}

\* Without the adminUsers init: auth alone registers the admin users
\* repository, and its two repositories still race logs and policy on the
\* PrefixService maps.
CoreInits == {"admin", "auth", "ctx", "logs", "policy"}

\* The admin init alone starts the leadership watcher.
AdminOnly == {"admin"}
=============================================================================
