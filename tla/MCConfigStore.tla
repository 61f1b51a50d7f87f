--------------------------- MODULE MCConfigStore ---------------------------
EXTENDS ConfigStore, TLC

MCOrder == <<"use_tls", "passphrase", "disable_p2p">>
MCDefault == "use_tls" :> FALSE @@ "passphrase" :> FALSE @@ "disable_p2p" :> TRUE
=============================================================================
