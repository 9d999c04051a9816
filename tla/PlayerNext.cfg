SPECIFICATION FairSpec
CONSTANTS
  MaxStray = 1
  Songs = {"s1", "s2"}
  Folders = {"a"}
  Listing <- MCListing
  Orders = {"single"}
PROPERTY NextAdvances
