----------------------------- MODULE MCConsent -----------------------------
(* Consent with two offers of two drops, the desktop app and a `watch`. *)
EXTENDS Consent, TLC

CONSTANTS o1, o2, d1, d2, app, term

DropOfOffer == o1 :> d1 @@ o2 :> d2
KindOfUi == app :> "app" @@ term :> "watch"
=============================================================================
