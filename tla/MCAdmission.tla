---------------------------- MODULE MCAdmission -----------------------------
(* Instance of Admission for TLC: two requests with the same credentials, one  *)
(* with another token.                                                          *)
EXTENDS Admission, TLC

MCHost == "r1" :> "host" @@ "r2" :> "host" @@ "r3" :> "host"
MCHeaders == "r1" :> ("x-token" :> "a") @@ "r2" :> ("x-token" :> "a")
             @@ "r3" :> ("x-token" :> "b" @@ "x-subscription-id" :> "s")
MCForwarded == <<"x-token">>
Limits(n) == [default |-> n, methods |-> [m \in {} |-> m]]
MCInfos == {[subscription_id |-> "s", ratelimits |-> Limits(1)]}
MCFile == <<[host |-> "host", token |-> "a", info |-> [subscription_id |-> "s", ratelimits |-> Limits(1)]],
            [host |-> "host", token |-> "a", info |-> [subscription_id |-> "t", ratelimits |-> Limits(1)]],
            [host |-> "host", token |-> "b", info |-> [subscription_id |-> "z", ratelimits |-> Limits(0)]]>>
MCTrusted == Limits(1)
Config(k, limited, token) == [kind |-> k, ratelimit |-> limited, x_token |-> token]
MCConfigs == {Config("cached", FALSE, NoXToken), Config("direct", FALSE, NoXToken),
              Config("file", TRUE, "a"), Config("file", TRUE, NoXToken), Config("trusted", TRUE, NoXToken),
              Config("none", FALSE, "a")}
MCMethodOf == "r1" :> "Ping" @@ "r2" :> "Ping" @@ "r3" :> "Ping"
=============================================================================
