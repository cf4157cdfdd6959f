\* Two offers of two drops; the app and a `watch`, which may come and go in
\* any order; one link pasted; outbound channels of one frame.
CONSTANTS
  o1 = o1  o2 = o2  d1 = d1  d2 = d2  app = app  term = term
  Offers = {o1, o2}
  Drops = {d1, d2}
  Links = {d1}
  DropOf <- DropOfOffer
  Uis = {app, term}
  Kind <- KindOfUi
  auto_accept = TRUE
  PumpCap = 1
  OutCap = 1
  AskCap = 1
  MaxClicks = 1
  None = None
SPECIFICATION LiveSpec
INVARIANTS
  TypeOK
  ConsentHonest
  AnswerDecides
CHECK_DEADLOCK FALSE
PROPERTIES
  OfferDecided
