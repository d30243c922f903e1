-------------------------- MODULE MCAuthentication --------------------------
(* Server mode before and after a change of the password, and development *)
(* mode without a key, which may have written another key before.          *)
EXTENDS Authentication

CONSTANTS k1, k2

Server(password) ==
  [mode |-> "server", user |-> "user", password |-> password, key |-> k1]

MCConfigs ==
  {Server("old"), Server("new"),
   [mode |-> "development", user |-> "", password |-> "", key |-> NoKey]}
=============================================================================
