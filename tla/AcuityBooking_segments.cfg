CONSTANTS
  Offers = {s1, s2}
  Asked = s1
  FreshPage = TRUE
  MaxLeases = 3
SPECIFICATION BookingSpec
INVARIANT StepsFindTheirPage
CHECK_DEADLOCK FALSE
