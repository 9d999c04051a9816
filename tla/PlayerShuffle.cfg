SPECIFICATION FairSpec
CONSTANTS
  MaxStray = 0
  Songs = {"s1", "s2", "s3"}
  Folders = {"a"}
  Listing <- MCListing
  Orders = {"shuffle"}
INVARIANT EditResetsShuffle
