SPECIFICATION FairSpec
CONSTANTS
  Buttons = {b1}
PROPERTY
  TopicsPromised
