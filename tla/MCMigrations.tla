---------------------------- MODULE MCMigrations ----------------------------
(* An instance of Migrations for TLC: a pod of an old image and two of a   *)
(* newer one with two more files, of which one lacks a secret and the      *)
(* other does without signatures; and a pod without any settings.          *)
EXTENDS Migrations, TLC

CONSTANTS old, new1, new2, bare

MCImage == old :> 1 @@ new1 :> 3 @@ new2 :> 3 @@ bare :> 1
MCEnv ==
    old :> Required(old)
    @@ new1 :> Required(old) \ {"HMAC_SECRET"}
    @@ new2 :> Required(old) \ {"FACTORY_SECRET_V1"}
    @@ bare :> {}
=============================================================================
