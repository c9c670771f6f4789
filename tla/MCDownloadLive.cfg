CONSTANTS
  Tasks = {t1, t2}
  Workers = {w1}
  Info = Info
  NULL = NULL
SPECIFICATION FairSpec
PROPERTIES DownloadEnds CloseEnds DialogAnswered
