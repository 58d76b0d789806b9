SPECIFICATION FairSpec
CONSTANT MaxData = 1
PROPERTY ExitsWhenOver
