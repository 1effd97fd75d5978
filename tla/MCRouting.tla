----------------------------- MODULE MCRouting -----------------------------
(***************************************************************************)
(* Routing on three text channels of two guilds, with two names, so that   *)
(* channels may share one, and with routes that name a channel by its      *)
(* name, by its id, and twice.                                             *)
(***************************************************************************)
EXTENDS Routing

MCChannels == {"1", "2", "3"}

MCNames    == {"lfg", "guild"}
MCGuildOf  == [c \in MCChannels |-> IF c = "3" THEN "B" ELSE "A"]

MCRoutes == <<[disc |-> "lfg", dir |-> "both", wow |-> "world"],
              [disc |-> "2", dir |-> "discord_to_wow", wow |-> "guild"],
              [disc |-> "1", dir |-> "both", wow |-> "trade"],
              [disc |-> "1", dir |-> "wow_to_discord", wow |-> "system"]>>
=============================================================================
