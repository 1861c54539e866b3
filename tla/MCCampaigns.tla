---------------------------- MODULE MCCampaigns -----------------------------
(* Instances of Campaigns for TLC. *)
EXTENDS Campaigns

AllMails == {CampaignMail(c, u) : c \in Previews, u \in Users}
              \cup {Farewell(u) : u \in Leavers}
=============================================================================
